---- MODULE Spec2Model ----
(***************************************************************************)
(* PRGuard triage engine: the SQLite-backed stores (embeddings, analyses,  *)
(* hourly and daily rate-limit counters) and the handlePR / handleIssue    *)
(* pipelines that use them.                                                *)
(***************************************************************************)
EXTENDS Integers, Sequences, FiniteSets, TLC

VARIABLES
    now,                      \* wall clock, in ticks
    embeddings,               \* table embeddings: set of rows
    analyses,                 \* table analyses: set of rows
    rate_limits,              \* table rate_limits: set of rows
    installation_rate_limits, \* table installation_rate_limits: set of rows
    comments,                 \* GitHub: item -> sequence of comments
    labels,                   \* GitHub: item -> set of label names
    metrics,                  \* metrics counters
    runs,                     \* pipeline runs: run id -> frame of the handler
    config,                   \* the repository's .github/prguard.yml as loadRepoConfig parses it
    callLog,                  \* history: calls made per hourly / daily bucket
    events,                   \* table events: the rows logEvent appended, oldest first
    lastOp                    \* history: the last store operation and its result

vars == <<now, embeddings, analyses, rate_limits, installation_rate_limits,
          comments, labels, metrics, runs, config, callLog, events, lastOp>>

(***************************************************************************)
(* Bounds                                                                  *)
(***************************************************************************)
MaxNow == 2            \* the clock stops after this many ticks
TicksPerHour == 1      \* clock ticks in one UTC hour bucket
HoursPerDay == 1       \* hour buckets in one UTC date
MaxRows == 2           \* rows inserted into the embeddings table (store spec)
MaxLimit == 2          \* largest LIMIT passed to listEmbeddings
MaxBudget == 2         \* largest maxPerHour passed to checkRateLimit
MaxCalls == 3          \* calls per counter
MaxDailyLimit == 2     \* largest daily_limit
MaxPipeNow == 1        \* clock ticks while pipeline runs are observed
MaxStoreNow == 1       \* clock ticks while store operations are observed
MaxCandidates == 3     \* longest candidate list passed to findDuplicates
MaxDups == 2           \* longest duplicate list passed to pickBestPR
MaxRuns == 2           \* events handled one after another (lifecycle specification)
MaxCommands == 1       \* /prguard commands handled (command specification)

(***************************************************************************)
(* Time: new Date().toISOString() sliced to the hour and to the date.      *)
(***************************************************************************)
hourOf(t) == t \div TicksPerHour

todayUTC(t) == t \div (TicksPerHour * HoursPerDay)

(***************************************************************************)
(* Items                                                                   *)
(***************************************************************************)
ItemType == {"pr", "issue"}

Repos == {"o/r1", "o/r2"}

Key(repo, type, number) == [repo |-> repo, type |-> type, number |-> number]

\* keys exercised by the store operations: same number under two types,
\* two numbers under one type, and a second repository
StoreKeys == { Key("o/r1", "pr", 1), Key("o/r1", "issue", 1),
               Key("o/r1", "pr", 2), Key("o/r2", "pr", 1) }

\* embedding vectors
Vectors == { <<1, 0>>, <<0, 1>>, <<1, 1>> }

\* JSON.stringify(number[]) / JSON.parse: one decimal token per element
Digits == -1 .. 9

JSONStringify(v) == [i \in DOMAIN v |-> ToString(v[i])]

JSONParse(s) == [i \in DOMAIN s |-> CHOOSE n \in Digits : ToString(n) = s[i]]

\* text and vector contents of an EmbeddingRecord
StoreContents ==
    { [title |-> "tA", body |-> "bA", diffSummary |-> "dA", embedding |-> <<1, 0>>],
      [title |-> "tB", body |-> "bB", diffSummary |-> "dB", embedding |-> <<0, 1>>] }

EmbeddingRecord(key, c) ==
    [repo |-> key.repo, type |-> key.type, number |-> key.number,
     title |-> c.title, body |-> c.body, diffSummary |-> c.diffSummary,
     embedding |-> c.embedding]

(***************************************************************************)
(* Table embeddings                                                        *)
(***************************************************************************)
\* A table is the set of its rows.  The rowid column (id INTEGER PRIMARY KEY)
\* is left out: no statement of the program reads or writes it.
SameKey(row, repo, type, number) ==
    row.repo = repo /\ row.type = type /\ row.number = number

upsertEmbeddingNoReactivate(tbl, record, t) ==
    IF \E row \in tbl : SameKey(row, record.repo, record.type, record.number)
    THEN { IF SameKey(row, record.repo, record.type, record.number)
           THEN [row EXCEPT !.title = record.title,
                            !.body = record.body,
                            !.diff_summary = record.diffSummary,
                            !.embedding = JSONStringify(record.embedding),
                            !.created_at = t]
           ELSE row : row \in tbl }
    ELSE tbl \cup { [repo |-> record.repo, type |-> record.type,
                     number |-> record.number,
                     title |-> record.title, body |-> record.body,
                     diff_summary |-> record.diffSummary,
                     embedding |-> JSONStringify(record.embedding),
                     active |-> 1, created_at |-> t] }

upsertEmbeddingAlwaysInsert(tbl, record, t) ==
    tbl \cup { [repo |-> record.repo, type |-> record.type,
                number |-> record.number,
                title |-> record.title, body |-> record.body,
                diff_summary |-> record.diffSummary,
                embedding |-> JSONStringify(record.embedding),
                active |-> 1, created_at |-> t] }

\* INSERT ... ON CONFLICT(repo, type, number) DO UPDATE SET ...
upsertEmbedding(tbl, record, t) ==
    IF \E row \in tbl : SameKey(row, record.repo, record.type, record.number)
    THEN { IF SameKey(row, record.repo, record.type, record.number)
           THEN [row EXCEPT !.title = record.title,
                            !.body = record.body,
                            !.diff_summary = record.diffSummary,
                            !.embedding = JSONStringify(record.embedding),
                            !.active = 1,
                            !.created_at = t]
           ELSE row : row \in tbl }
    ELSE tbl \cup { [repo |-> record.repo, type |-> record.type,
                     number |-> record.number,
                     title |-> record.title, body |-> record.body,
                     diff_summary |-> record.diffSummary,
                     embedding |-> JSONStringify(record.embedding),
                     active |-> 1, created_at |-> t] }

\* row -> EmbeddingRecord, as listEmbeddings and getEmbeddingRecord map it
RowToRecord(row) ==
    [repo |-> row.repo, type |-> row.type, number |-> row.number,
     title |-> row.title, body |-> row.body, diffSummary |-> row.diff_summary,
     embedding |-> JSONParse(row.embedding), active |-> (row.active = 1)]

\* ORDER BY created_at DESC: every order of the rows with created_at descending
\* (rows with equal created_at come in an order SQL does not fix)
RECURSIVE OrderByCreatedDesc(_)
OrderByCreatedDesc(rows) ==
    IF rows = {} THEN { <<>> }
    ELSE UNION { { <<r>> \o s : s \in OrderByCreatedDesc(rows \ {r}) } :
                 r \in { x \in rows : \A y \in rows : y.created_at <= x.created_at } }

Min(a, b) == IF a <= b THEN a ELSE b

Max(a, b) == IF a >= b THEN a ELSE b

MapSeq(s, F(_)) == [i \in DOMAIN s |-> F(s[i])]

listEmbeddingsAllRows(tbl, repo, limit) ==
    { MapSeq(SubSeq(s, 1, Min(limit, Len(s))), RowToRecord) :
      s \in OrderByCreatedDesc({ row \in tbl : row.repo = repo }) }

\* SELECT ... WHERE repo = ? AND active = 1 ORDER BY created_at DESC LIMIT ?
\* the set of result lists the query can return
listEmbeddings(tbl, repo, limit) ==
    { MapSeq(SubSeq(s, 1, Min(limit, Len(s))), RowToRecord) :
      s \in OrderByCreatedDesc({ row \in tbl : row.repo = repo /\ row.active = 1 }) }

\* SELECT ... WHERE repo = ? AND type = ? AND number = ?   (NullRecord for null)
NullRecord == [null |-> TRUE]

getEmbeddingRecord(tbl, repo, type, number) ==
    IF \E row \in tbl : SameKey(row, repo, type, number)
    THEN RowToRecord(CHOOSE row \in tbl : SameKey(row, repo, type, number))
    ELSE NullRecord

deactivateEmbeddingDelete(tbl, repo, type, number) ==
    { row \in tbl : ~SameKey(row, repo, type, number) }

\* UPDATE embeddings SET active = 0 WHERE repo = ? AND type = ? AND number = ?
deactivateEmbedding(tbl, repo, type, number) ==
    { IF SameKey(row, repo, type, number) THEN [row EXCEPT !.active = 0] ELSE row :
      row \in tbl }

reactivateChangesAnyMatch(tbl, repo, type, number) ==
    Cardinality({ row \in tbl : SameKey(row, repo, type, number) })

\* result.changes of UPDATE ... WHERE ... AND active = 0
reactivateChanges(tbl, repo, type, number) ==
    Cardinality({ row \in tbl : SameKey(row, repo, type, number) /\ row.active = 0 })

\* a variant that leaves every row as it is
reactivateEmbeddingNever(tbl, repo, type, number) == tbl

\* UPDATE embeddings SET active = 1 WHERE repo = ? AND type = ? AND number = ? AND active = 0
reactivateEmbedding(tbl, repo, type, number) ==
    { IF SameKey(row, repo, type, number) /\ row.active = 0
      THEN [row EXCEPT !.active = 1] ELSE row : row \in tbl }

\* lifecycle state of a key: Absent, Inactive or Active
KeyState(tbl, key) ==
    IF ~\E row \in tbl : SameKey(row, key.repo, key.type, key.number) THEN "Absent"
    ELSE IF \E row \in tbl : SameKey(row, key.repo, key.type, key.number) /\ row.active = 1
         THEN "Active" ELSE "Inactive"

(***************************************************************************)
(* Store operations as steps (direct calls of the db module's functions)   *)
(***************************************************************************)
RunIds == 1 .. MaxRuns

\* the frame of a handler that has not been invoked
IdleFrame ==
    [pc |-> "idle", event |-> "none", reactivated |-> FALSE,
     type |-> "none", number |-> 0, author |-> "none",
     installationId |-> 0, score |-> 0, used |-> -1, checkDate |-> -1,
     embedded |-> FALSE, client |-> FALSE, embedding |-> <<>>, deduped |-> FALSE, duplicates |-> <<>>,
     labelsEnsured |-> FALSE, labelsToApply |-> {}, labelsApplied |-> {},
     body |-> [kind |-> "none", marker |-> FALSE], existing |-> 0, outcome |-> "none"]

IdleRuns == [r \in RunIds |-> IdleFrame]

\* defaultConfig (fields the handlers read; percentages in hundredths)
defaultConfig ==
    [duplicate_threshold |-> 85, trusted_users |-> {}, dry_run |-> FALSE,
     skip_bots |-> TRUE, daily_limit |-> 50, vision |-> ""]

StoreInit ==
    /\ now = 0
    /\ embeddings = {}
    /\ analyses = {}
    /\ rate_limits = {}
    /\ installation_rate_limits = {}
    /\ comments = <<>>
    /\ labels = <<>>
    /\ metrics = <<>>
    /\ runs = IdleRuns
    /\ config = defaultConfig
    /\ callLog = [hourly |-> <<>>, daily |-> <<>>]
    /\ events = <<>>
    /\ lastOp = [op |-> "none"]

\* time passes
Tick ==
    /\ now < MaxNow
    /\ now' = now + 1
    /\ UNCHANGED <<embeddings, analyses, rate_limits, installation_rate_limits,
                   comments, labels, metrics, runs, config, callLog, lastOp, events>>

UpsertEmbedding(key, c) ==
    /\ \/ KeyState(embeddings, key) # "Absent"
       \/ Cardinality(embeddings) < MaxRows
    /\ embeddings' = upsertEmbedding(embeddings, EmbeddingRecord(key, c), now)
    /\ lastOp' = [op |-> "upsertEmbedding", key |-> key,
                  record |-> EmbeddingRecord(key, c),
                  prior |-> KeyState(embeddings, key)]
    /\ UNCHANGED <<now, analyses, rate_limits, installation_rate_limits,
                   comments, labels, metrics, runs, config, callLog, events>>

DeactivateEmbedding(key) ==
    /\ embeddings' = deactivateEmbedding(embeddings, key.repo, key.type, key.number)
    /\ lastOp' = [op |-> "deactivateEmbedding", key |-> key]
    /\ UNCHANGED <<now, analyses, rate_limits, installation_rate_limits,
                   comments, labels, metrics, runs, config, callLog, events>>

ReactivateEmbedding(key) ==
    /\ embeddings' = reactivateEmbedding(embeddings, key.repo, key.type, key.number)
    /\ lastOp' = [op |-> "reactivateEmbedding", key |-> key,
                  prior |-> KeyState(embeddings, key),
                  ret |-> (reactivateChanges(embeddings, key.repo, key.type, key.number) > 0)]
    /\ UNCHANGED <<now, analyses, rate_limits, installation_rate_limits,
                   comments, labels, metrics, runs, config, callLog, events>>

ListEmbeddings(repo, limit) ==
    /\ \E res \in listEmbeddings(embeddings, repo, limit) :
         lastOp' = [op |-> "listEmbeddings", repo |-> repo, limit |-> limit, ret |-> res]
    /\ UNCHANGED <<now, embeddings, analyses, rate_limits, installation_rate_limits,
                   comments, labels, metrics, runs, config, callLog, events>>

StoreNext ==
    \/ (now < MaxStoreNow /\ Tick)
    \/ \E key \in StoreKeys, c \in StoreContents : UpsertEmbedding(key, c)
    \/ \E key \in StoreKeys : DeactivateEmbedding(key)
    \/ \E key \in StoreKeys : ReactivateEmbedding(key)
    \/ \E repo \in Repos, limit \in 1 .. MaxLimit : ListEmbeddings(repo, limit)

StoreSpec == StoreInit /\ [][StoreNext]_vars

\* a store operation was performed in this step: only Tick moves the clock,
\* and every other step of the store specifications records its operation
OpStep(name) == now' = now /\ lastOp'.op = name

RowsOf(tbl, key) == { row \in tbl : SameKey(row, key.repo, key.type, key.number) }

(***************************************************************************)
(* C1: after upsertEmbedding for a key the row for that key exists and is  *)
(* Active whatever its prior state, and its title, body, diff summary and  *)
(* vector are those of the upserted record (nothing kept from the old row).*)
(***************************************************************************)
C1_UpsertOverwrites ==
    lastOp.op = "upsertEmbedding" =>
        /\ KeyState(embeddings, lastOp.key) = "Active"
        /\ getEmbeddingRecord(embeddings, lastOp.key.repo, lastOp.key.type, lastOp.key.number)
             = [repo |-> lastOp.record.repo, type |-> lastOp.record.type,
                number |-> lastOp.record.number, title |-> lastOp.record.title,
                body |-> lastOp.record.body,
                diffSummary |-> lastOp.record.diffSummary,
                embedding |-> lastOp.record.embedding, active |-> TRUE]

C1_Witness ==
    /\ lastOp.op = "upsertEmbedding"
    /\ lastOp.prior = "Inactive"
    /\ lastOp.record.title = "tB"
    /\ KeyState(embeddings, lastOp.key) = "Active"

(***************************************************************************)
(* C2: reactivateEmbedding returns true exactly when the key's row was     *)
(* Inactive, and then the row is Active; for an Active or Absent key it    *)
(* returns false and the table is unchanged (no row is created).           *)
(***************************************************************************)
C2_ReactivateOnlyInactive ==
    [][OpStep("reactivateEmbedding") =>
         /\ lastOp'.ret = (KeyState(embeddings, lastOp'.key) = "Inactive")
         /\ lastOp'.ret => KeyState(embeddings', lastOp'.key) = "Active"
         /\ ~lastOp'.ret => embeddings' = embeddings
         /\ \A key \in StoreKeys :
              key # lastOp'.key => RowsOf(embeddings', key) = RowsOf(embeddings, key)]_vars

C2_Witness ==
    /\ lastOp.op = "reactivateEmbedding"
    /\ lastOp.prior = "Inactive"
    /\ lastOp.ret
    /\ KeyState(embeddings, lastOp.key) = "Active"

(***************************************************************************)
(* C3: listEmbeddings(repo, limit) returns only rows that are Active now   *)
(* and belong to repo, and at most limit of them; a row that was upserted  *)
(* and then deactivated is not listed.                                     *)
(***************************************************************************)
C3_ListOnlyActive ==
    lastOp.op = "listEmbeddings" =>
        /\ Len(lastOp.ret) <= lastOp.limit
        /\ \A i \in DOMAIN lastOp.ret :
             /\ lastOp.ret[i].repo = lastOp.repo
             /\ KeyState(embeddings, Key(lastOp.ret[i].repo, lastOp.ret[i].type,
                                         lastOp.ret[i].number)) = "Active"
        /\ \A key \in StoreKeys :
             KeyState(embeddings, key) = "Inactive" =>
                 ~\E i \in DOMAIN lastOp.ret :
                      Key(lastOp.ret[i].repo, lastOp.ret[i].type, lastOp.ret[i].number) = key

C3_Witness ==
    /\ lastOp.op = "listEmbeddings"
    /\ Len(lastOp.ret) = 1
    /\ lastOp.limit > 1
    /\ \E row \in embeddings : row.repo = lastOp.repo /\ row.active = 0

(***************************************************************************)
(* C4: the embeddings table holds at most one row per (repo, type, number);*)
(* a second upsert of an item adds no row, and deactivate / reactivate     *)
(* neither create nor delete rows.                                         *)
(***************************************************************************)
C4_OneRowPerKey ==
    [][/\ \A key \in StoreKeys : Cardinality(RowsOf(embeddings', key)) <= 1
       /\ (OpStep("upsertEmbedding") /\ lastOp'.prior # "Absent") =>
             Cardinality(embeddings') = Cardinality(embeddings)
       /\ (OpStep("deactivateEmbedding") \/ OpStep("reactivateEmbedding")) =>
             /\ Cardinality(embeddings') = Cardinality(embeddings)
             /\ \A key \in StoreKeys :
                  (RowsOf(embeddings', key) = {}) = (RowsOf(embeddings, key) = {})]_vars

C4_Witness ==
    /\ lastOp.op = "upsertEmbedding"
    /\ lastOp.prior = "Active"
    /\ Cardinality(RowsOf(embeddings, lastOp.key)) = 1
    /\ Cardinality(embeddings) = 2

(***************************************************************************)
(* Table rate_limits: the hourly per-repository budget                     *)
(***************************************************************************)
SameBucket(row, repo, hour) == row.repo = repo /\ row.hour = hour

rlIncrementReplace(tbl, repo, hour) ==
    { row \in tbl : ~SameBucket(row, repo, hour) }
        \cup { [repo |-> repo, hour |-> hour, openai_calls |-> 1] }

\* INSERT INTO rate_limits VALUES (?, ?, 1)
\* ON CONFLICT(repo, hour) DO UPDATE SET openai_calls = openai_calls + 1
rlIncrement(tbl, repo, hour) ==
    IF \E row \in tbl : SameBucket(row, repo, hour)
    THEN { IF SameBucket(row, repo, hour)
           THEN [row EXCEPT !.openai_calls = row.openai_calls + 1]
           ELSE row : row \in tbl }
    ELSE tbl \cup { [repo |-> repo, hour |-> hour, openai_calls |-> 1] }

\* SELECT openai_calls FROM rate_limits WHERE repo = ? AND hour = ?
rlRead(tbl, repo, hour) ==
    (CHOOSE row \in tbl : SameBucket(row, repo, hour)).openai_calls

underBudgetStrict(calls, maxPerHour) == calls < maxPerHour

\* return row.openai_calls <= maxPerHour
underBudget(calls, maxPerHour) == calls <= maxPerHour

\* the counter of a bucket as the table holds it (0 when there is no row)
HourlyCount(tbl, repo, hour) ==
    IF \E row \in tbl : SameBucket(row, repo, hour) THEN rlRead(tbl, repo, hour) ELSE 0

\* history of calls per bucket
Count(log, k) == IF k \in DOMAIN log THEN log[k] ELSE 0

Logged(log, k) == (k :> (Count(log, k) + 1)) @@ log

\* checkRateLimit(db, repo, maxPerHour): increment, read back, compare
CheckRateLimit(repo, maxPerHour) ==
    /\ Count(callLog.hourly, <<repo, hourOf(now)>>) < MaxCalls
    /\ rate_limits' = rlIncrement(rate_limits, repo, hourOf(now))
    /\ callLog' = [callLog EXCEPT !.hourly = Logged(callLog.hourly, <<repo, hourOf(now)>>)]
    /\ lastOp' = [op |-> "checkRateLimit", repo |-> repo, hour |-> hourOf(now), maxPerHour |-> maxPerHour,
                  ret |-> underBudget(rlRead(rate_limits', repo, hourOf(now)), maxPerHour)]
    /\ UNCHANGED <<now, embeddings, analyses, installation_rate_limits,
                   comments, labels, metrics, runs, config, events>>

RateNext ==
    \/ Tick
    \/ \E repo \in Repos, maxPerHour \in 1 .. MaxBudget : CheckRateLimit(repo, maxPerHour)

RateSpec == StoreInit /\ [][RateNext]_vars

Hours == 0 .. hourOf(MaxNow)

(***************************************************************************)
(* C5: the i-th checkRateLimit call of a repository within one hour bucket *)
(* is admitted iff i <= maxPerHour; the calls of other repositories and of *)
(* other hour buckets do not count, so a fresh bucket admits again.        *)
(***************************************************************************)
C5_AdmitIffWithinBudget ==
    [][OpStep("checkRateLimit") =>
         /\ lastOp'.ret =
              (Count(callLog'.hourly, <<lastOp'.repo, lastOp'.hour>>) <= lastOp'.maxPerHour)
         /\ \A repo \in Repos, hour \in Hours :
              <<repo, hour>> # <<lastOp'.repo, lastOp'.hour>> =>
                  /\ Count(callLog'.hourly, <<repo, hour>>) = Count(callLog.hourly, <<repo, hour>>)
                  /\ HourlyCount(rate_limits', repo, hour) = HourlyCount(rate_limits, repo, hour)]_vars

C5_Witness ==
    /\ lastOp.op = "checkRateLimit"
    /\ lastOp.ret
    /\ lastOp.hour > 0
    /\ Count(callLog.hourly, <<lastOp.repo, lastOp.hour>>) = lastOp.maxPerHour
    /\ Count(callLog.hourly, <<lastOp.repo, lastOp.hour - 1>>) > lastOp.maxPerHour
    /\ \E repo \in Repos : repo # lastOp.repo /\ Count(callLog.hourly, <<repo, lastOp.hour>>) > 0

(***************************************************************************)
(* C6: every checkRateLimit call adds exactly one to the counter of its    *)
(* (repo, hour) bucket, admitted or not; the counter equals the number of  *)
(* calls made in the bucket, never decreases, and an unused bucket is 0.   *)
(***************************************************************************)
C6_CounterCountsCalls ==
    [][/\ \A repo \in Repos, hour \in Hours :
            /\ HourlyCount(rate_limits', repo, hour) = Count(callLog'.hourly, <<repo, hour>>)
            /\ HourlyCount(rate_limits', repo, hour) >= HourlyCount(rate_limits, repo, hour)
            /\ Cardinality({ row \in rate_limits' : SameBucket(row, repo, hour) }) <= 1
       /\ OpStep("checkRateLimit") =>
            HourlyCount(rate_limits', lastOp'.repo, lastOp'.hour)
              = HourlyCount(rate_limits, lastOp'.repo, lastOp'.hour) + 1]_vars

C6_Witness ==
    /\ lastOp.op = "checkRateLimit"
    /\ ~lastOp.ret
    /\ HourlyCount(rate_limits, lastOp.repo, lastOp.hour) = lastOp.maxPerHour + 2
    /\ \E repo \in Repos, hour \in Hours : HourlyCount(rate_limits, repo, hour) = 0

(***************************************************************************)
(* Table installation_rate_limits: the daily per-installation budget       *)
(***************************************************************************)
Installations == {101, 202}

SameDay(row, installationId, date) ==
    row.installation_id = installationId /\ row.date = date

checkInstallationRateLimitNoClamp(tbl, installationId, dailyLimit, t) ==
    LET used == IF \E row \in tbl : SameDay(row, installationId, todayUTC(t))
                THEN (CHOOSE row \in tbl : SameDay(row, installationId, todayUTC(t))).count
                ELSE 0
    IN  [allowed |-> used < dailyLimit, remaining |-> dailyLimit - used, used |-> used]

\* SELECT count ... WHERE installation_id = ? AND date = ?;  used = row?.count ?? 0
checkInstallationRateLimit(tbl, installationId, dailyLimit, t) ==
    LET used == IF \E row \in tbl : SameDay(row, installationId, todayUTC(t))
                THEN (CHOOSE row \in tbl : SameDay(row, installationId, todayUTC(t))).count
                ELSE 0
    IN  [allowed |-> used < dailyLimit,
         remaining |-> Max(0, dailyLimit - used),
         used |-> used]

incrementInstallationRateLimitAnyTenant(tbl, installationId, t) ==
    IF tbl # {}
    THEN { [row EXCEPT !.count = row.count + 1] : row \in tbl }
    ELSE { [installation_id |-> installationId, date |-> todayUTC(t), count |-> 1] }

incrementInstallationRateLimitLost(tbl, installationId, t) ==
    { row \in tbl : ~SameDay(row, installationId, todayUTC(t)) }
        \cup { [installation_id |-> installationId, date |-> todayUTC(t), count |-> 1] }

\* INSERT INTO installation_rate_limits VALUES (?, ?, 1)
\* ON CONFLICT(installation_id, date) DO UPDATE SET count = count + 1
incrementInstallationRateLimit(tbl, installationId, t) ==
    IF \E row \in tbl : SameDay(row, installationId, todayUTC(t))
    THEN { IF SameDay(row, installationId, todayUTC(t))
           THEN [row EXCEPT !.count = row.count + 1]
           ELSE row : row \in tbl }
    ELSE tbl \cup { [installation_id |-> installationId, date |-> todayUTC(t), count |-> 1] }

CheckInstallationCounting(installationId, dailyLimit) ==
    /\ Count(callLog.daily, <<installationId, todayUTC(now)>>) < MaxCalls
    /\ installation_rate_limits' =
         incrementInstallationRateLimit(installation_rate_limits, installationId, now)
    /\ lastOp' = [op |-> "checkInstallationRateLimit", installationId |-> installationId, dailyLimit |-> dailyLimit,
                  date |-> todayUTC(now),
                  again |-> /\ lastOp.op = "checkInstallationRateLimit"
                            /\ lastOp.installationId = installationId
                            /\ lastOp.dailyLimit = dailyLimit
                            /\ lastOp.date = todayUTC(now),
                  ret |-> checkInstallationRateLimit(installation_rate_limits,
                                                     installationId, dailyLimit, now)]
    /\ UNCHANGED <<now, embeddings, analyses, rate_limits,
                   comments, labels, metrics, runs, config, callLog, events>>

\* checkInstallationRateLimit(db, installationId, dailyLimit): a read
CheckInstallation(installationId, dailyLimit) ==
    /\ lastOp' = [op |-> "checkInstallationRateLimit", installationId |-> installationId, dailyLimit |-> dailyLimit,
                  date |-> todayUTC(now),
                  again |-> /\ lastOp.op = "checkInstallationRateLimit"
                            /\ lastOp.installationId = installationId
                            /\ lastOp.dailyLimit = dailyLimit
                            /\ lastOp.date = todayUTC(now),
                  ret |-> checkInstallationRateLimit(installation_rate_limits,
                                                     installationId, dailyLimit, now)]
    /\ UNCHANGED <<now, embeddings, analyses, rate_limits, installation_rate_limits,
                   comments, labels, metrics, runs, config, callLog, events>>

\* incrementInstallationRateLimit(db, installationId)
IncrementInstallation(installationId) ==
    /\ Count(callLog.daily, <<installationId, todayUTC(now)>>) < MaxCalls
    /\ installation_rate_limits' =
         incrementInstallationRateLimit(installation_rate_limits, installationId, now)
    /\ callLog' = [callLog EXCEPT !.daily = Logged(callLog.daily, <<installationId, todayUTC(now)>>)]
    /\ lastOp' = [op |-> "incrementInstallationRateLimit", installationId |-> installationId, date |-> todayUTC(now)]
    /\ UNCHANGED <<now, embeddings, analyses, rate_limits,
                   comments, labels, metrics, runs, config, events>>

DailyNext ==
    \/ Tick
    \/ \E id \in Installations, dailyLimit \in 1 .. MaxDailyLimit :
           CheckInstallation(id, dailyLimit)
    \/ \E id \in Installations : IncrementInstallation(id)

\* the daily counters start empty; the hourly table may already hold a counter
DailyInit ==
    /\ now = 0
    /\ embeddings = {}
    /\ analyses = {}
    /\ rate_limits \in { {}, rlIncrement({}, "o/r1", hourOf(0)) }
    /\ installation_rate_limits = {}
    /\ comments = <<>>
    /\ labels = <<>>
    /\ metrics = <<>>
    /\ runs = IdleRuns
    /\ config = defaultConfig
    /\ callLog = [hourly |-> <<>>, daily |-> <<>>]
    /\ events = <<>>
    /\ lastOp = [op |-> "none"]

DailySpec == DailyInit /\ [][DailyNext]_vars

(***************************************************************************)
(* C7: checkInstallationRateLimit changes no state (neither the daily nor  *)
(* the hourly counters), and consecutive checks with no increment between  *)
(* them return the same result.                                            *)
(***************************************************************************)
C7_CheckIsReadOnly ==
    [][OpStep("checkInstallationRateLimit") =>
         /\ installation_rate_limits' = installation_rate_limits
         /\ rate_limits' = rate_limits
         /\ UNCHANGED <<embeddings, analyses, comments, labels, metrics, events>>
         /\ lastOp'.again => lastOp'.ret = lastOp.ret]_vars

C7_Witness ==
    /\ lastOp.op = "checkInstallationRateLimit"
    /\ lastOp.again
    /\ lastOp.ret.used > 0
    /\ rate_limits # {}

(***************************************************************************)
(* C8: after k increments for a tenant on the current UTC date, the check  *)
(* reports used = k, allowed = (k < limit), remaining = max(0, limit - k)  *)
(* (never negative); increments of one tenant leave the result of every    *)
(* other tenant unchanged.                                                 *)
(***************************************************************************)
C8_CheckReportsIncrements ==
    [][/\ OpStep("checkInstallationRateLimit") =>
            LET k == Count(callLog'.daily, <<lastOp'.installationId, todayUTC(now')>>)
            IN  /\ lastOp'.ret.used = k
                /\ lastOp'.ret.allowed = (k < lastOp'.dailyLimit)
                /\ lastOp'.ret.remaining = Max(0, lastOp'.dailyLimit - k)
                /\ lastOp'.ret.remaining >= 0
       /\ OpStep("incrementInstallationRateLimit") =>
            \A other \in Installations, dailyLimit \in 1 .. MaxDailyLimit :
                other # lastOp'.installationId =>
                    checkInstallationRateLimit(installation_rate_limits', other, dailyLimit, now')
                      = checkInstallationRateLimit(installation_rate_limits, other, dailyLimit, now)]_vars

C8_Witness ==
    /\ lastOp.op = "checkInstallationRateLimit"
    /\ lastOp.ret.used > lastOp.dailyLimit
    /\ lastOp.ret.remaining = 0
    /\ ~lastOp.ret.allowed
    /\ \E row \in installation_rate_limits :
           row.installation_id # lastOp.installationId /\ row.date = lastOp.date

(***************************************************************************)
(* Deduplicator                                                            *)
(***************************************************************************)
RECURSIVE SumTo(_, _, _)
SumTo(a, b, n) == IF n = 0 THEN 0 ELSE a[n] * b[n] + SumTo(a, b, n - 1)

\* A similarity is kept exactly, as num / sqrt(den2) with den2 > 0.
SimZero == [num |-> 0, den2 |-> 1]

\* a variant that returns the dot product without normalising it
cosineSimilarityUnnormalized(a, b) ==
    IF Len(a) = 0 \/ Len(b) = 0 \/ Len(a) # Len(b) THEN SimZero
    ELSE IF SumTo(a, a, Len(a)) = 0 \/ SumTo(b, b, Len(b)) = 0 THEN SimZero
    ELSE [num |-> SumTo(a, b, Len(a)), den2 |-> 1]

\* cosineSimilarity(a, b) = dot / (sqrt(magA) * sqrt(magB)), 0 for degenerate input
cosineSimilarity(a, b) ==
    IF Len(a) = 0 \/ Len(b) = 0 \/ Len(a) # Len(b) THEN SimZero
    ELSE IF SumTo(a, a, Len(a)) = 0 \/ SumTo(b, b, Len(b)) = 0 THEN SimZero
    ELSE [num |-> SumTo(a, b, Len(a)),
          den2 |-> SumTo(a, a, Len(a)) * SumTo(b, b, Len(b))]

SignedSquare(x) == IF x >= 0 THEN x * x ELSE 0 - x * x

\* s >= t for two similarities
SimGE(s, t) == SignedSquare(s.num) * t.den2 >= SignedSquare(t.num) * s.den2

\* a threshold given in hundredths
Hundredths(p) == [num |-> p, den2 |-> 10000]

\* Array.prototype.sort((a, b) => b.similarity - a.similarity): stable, descending
\* a variant that puts an element before the elements equal to it
RECURSIVE InsertDescBeforeEqual(_, _)
InsertDescBeforeEqual(sorted, x) ==
    IF sorted = <<>> THEN <<x>>
    ELSE IF ~SimGE(x.similarity, sorted[1].similarity)
         THEN <<sorted[1]>> \o InsertDescBeforeEqual(Tail(sorted), x)
         ELSE <<x>> \o sorted

RECURSIVE InsertDesc(_, _)
InsertDesc(sorted, x) ==
    IF sorted = <<>> THEN <<x>>
    ELSE IF SimGE(sorted[1].similarity, x.similarity)
         THEN <<sorted[1]>> \o InsertDesc(Tail(sorted), x)
         ELSE <<x>> \o sorted

RECURSIVE SortDesc(_)
SortDesc(s) ==
    IF s = <<>> THEN <<>>
    ELSE InsertDesc(SortDesc(SubSeq(s, 1, Len(s) - 1)), s[Len(s)])

\* a variant that compares an item with items of its own type only
findDuplicatesSameType(current, existing, threshold) ==
    LET sameType(item) == item.type = current.type /\ item.number # current.number
        toMatch(item) == [type |-> item.type, number |-> item.number,
                          similarity |-> cosineSimilarity(current.embedding, item.embedding),
                          title |-> item.title]
        atLeast(m) == SimGE(m.similarity, Hundredths(threshold))
    IN  SelectSeq(MapSeq(SelectSeq(existing, sameType), toMatch), atLeast)

\* findDuplicates(current, existing, threshold)
findDuplicates(current, existing, threshold) ==
    LET notSelf(item) == ~(item.type = current.type /\ item.number = current.number)
        toMatch(item) == [type |-> item.type, number |-> item.number,
                          similarity |-> cosineSimilarity(current.embedding, item.embedding),
                          title |-> item.title]
        atLeast(m) == SimGE(m.similarity, Hundredths(threshold))
    IN  SortDesc(SelectSeq(MapSeq(SelectSeq(existing, notSelf), toMatch), atLeast))

(***************************************************************************)
(* Table analyses                                                          *)
(***************************************************************************)
\* JSON.stringify(record.duplicates) / JSON.parse(row.duplicates)
stringifyDuplicates(dups) == [json |-> dups]

parseDuplicates(text) == text.json

\* SQL NULL in a text column, and in a numeric column (scores are never negative)
Null == "null"
NullNumber == 0 - 1

\* a variant that accumulates the duplicate lists of successive upserts
upsertAnalysisAppends(tbl, record) ==
    LET row(before) ==
            [repo |-> record.repo, type |-> record.type, number |-> record.number,
             duplicates |-> stringifyDuplicates(before \o record.duplicates),
             vision_score |-> record.visionScore,
             vision_reasoning |-> record.visionReasoning,
             recommendation |-> record.recommendation,
             pr_quality_score |-> record.prQualityScore]
    IN  IF \E old \in tbl : SameKey(old, record.repo, record.type, record.number)
        THEN { IF SameKey(old, record.repo, record.type, record.number)
               THEN row(parseDuplicates(old.duplicates)) ELSE old : old \in tbl }
        ELSE tbl \cup {row(<<>>)}

\* a variant that keeps the old value of a column the new record leaves null
upsertAnalysisKeepNonNull(tbl, record) ==
    LET row == [repo |-> record.repo, type |-> record.type, number |-> record.number,
                duplicates |-> stringifyDuplicates(record.duplicates),
                vision_score |-> record.visionScore,
                vision_reasoning |-> record.visionReasoning,
                recommendation |-> record.recommendation,
                pr_quality_score |-> record.prQualityScore]
        merged(old) == [row EXCEPT
                          !.vision_score = IF @ = NullNumber THEN old.vision_score ELSE @,
                          !.vision_reasoning = IF @ = Null THEN old.vision_reasoning ELSE @,
                          !.recommendation = IF @ = Null THEN old.recommendation ELSE @,
                          !.pr_quality_score = IF @ = NullNumber THEN old.pr_quality_score ELSE @]
    IN  IF \E old \in tbl : SameKey(old, record.repo, record.type, record.number)
        THEN { IF SameKey(old, record.repo, record.type, record.number) THEN merged(old) ELSE old :
               old \in tbl }
        ELSE tbl \cup {row}

\* a variant that keeps an existing row (INSERT OR IGNORE)
upsertAnalysisInsertOnly(tbl, record) ==
    IF \E old \in tbl : SameKey(old, record.repo, record.type, record.number)
    THEN tbl
    ELSE tbl \cup { [repo |-> record.repo, type |-> record.type, number |-> record.number,
                      duplicates |-> stringifyDuplicates(record.duplicates),
                      vision_score |-> record.visionScore,
                      vision_reasoning |-> record.visionReasoning,
                      recommendation |-> record.recommendation,
                      pr_quality_score |-> record.prQualityScore] }

\* INSERT INTO analyses ... ON CONFLICT(repo, type, number) DO UPDATE SET ...
\* (created_at is left out: the program never reads analyses.created_at)
upsertAnalysis(tbl, record) ==
    LET row == [repo |-> record.repo, type |-> record.type, number |-> record.number,
                duplicates |-> stringifyDuplicates(record.duplicates),
                vision_score |-> record.visionScore,
                vision_reasoning |-> record.visionReasoning,
                recommendation |-> record.recommendation,
                pr_quality_score |-> record.prQualityScore]
    IN  IF \E old \in tbl : SameKey(old, record.repo, record.type, record.number)
        THEN { IF SameKey(old, record.repo, record.type, record.number) THEN row ELSE old :
               old \in tbl }
        ELSE tbl \cup {row}

\* getAnalysis(db, repo, type, number)?.prQualityScore ?? 0
analysisScoreOrZero(tbl, repo, type, number) ==
    IF \E row \in tbl : SameKey(row, repo, type, number)
    THEN LET row == CHOOSE row \in tbl : SameKey(row, repo, type, number)
         IN  IF row.pr_quality_score = NullNumber THEN 0 ELSE row.pr_quality_score
    ELSE 0

\* SELECT ... FROM analyses WHERE repo = ? AND type = ? AND number = ?
getAnalysis(tbl, repo, type, number) ==
    IF \E row \in tbl : SameKey(row, repo, type, number)
    THEN LET row == CHOOSE row \in tbl : SameKey(row, repo, type, number)
         IN  [repo |-> row.repo, type |-> row.type, number |-> row.number,
              duplicates |-> parseDuplicates(row.duplicates),
              visionScore |-> row.vision_score,
              visionReasoning |-> row.vision_reasoning,
              recommendation |-> row.recommendation,
              prQualityScore |-> row.pr_quality_score]
    ELSE NullRecord

RECURSIVE pickBestLoopLastWins(_, _, _, _, _)
pickBestLoopLastWins(cands, bestNumber, bestScore, tbl, fullRepo) ==
    IF cands = <<>> THEN bestNumber
    ELSE LET candidateScore == analysisScoreOrZero(tbl, fullRepo, "pr", cands[1].number)
         IN  IF candidateScore >= bestScore
             THEN pickBestLoopLastWins(Tail(cands), cands[1].number, candidateScore, tbl, fullRepo)
             ELSE pickBestLoopLastWins(Tail(cands), bestNumber, bestScore, tbl, fullRepo)

RECURSIVE pickBestLoop(_, _, _, _, _)
pickBestLoop(cands, bestNumber, bestScore, tbl, fullRepo) ==
    IF cands = <<>> THEN bestNumber
    ELSE LET candidateScore == analysisScoreOrZero(tbl, fullRepo, "pr", cands[1].number)
         IN  IF candidateScore > bestScore
             THEN pickBestLoop(Tail(cands), cands[1].number, candidateScore, tbl, fullRepo)
             ELSE pickBestLoop(Tail(cands), bestNumber, bestScore, tbl, fullRepo)

\* pickBestPR(currentNumber, duplicates, currentQuality, db, fullRepo)
pickBestPR(currentNumber, duplicates, currentScore, tbl, fullRepo) ==
    LET isPR(item) == item.type = "pr"
    IN  pickBestLoop(SelectSeq(duplicates, isPR), currentNumber, currentScore, tbl, fullRepo)

\* scorePRQuality: score >= 0.75 approve, >= 0.45 review, else reject (hundredths)
ApproveThreshold == 75

RejectThreshold == 45

recommendationOf(score) ==
    IF score >= ApproveThreshold THEN "approve"
    ELSE IF score >= RejectThreshold THEN "review" ELSE "reject"

(***************************************************************************)
(* The pipeline: handlePR and handleIssue                                  *)
(***************************************************************************)
OPENAI_BUDGET_PER_HOUR == 60

DefaultListLimit == 500

PipeRepo == "o/r1"

\* the items of PipeRepo that receive events: pull request #1 and issue #2
PipeItems == { [type |-> "pr", number |-> 1], [type |-> "issue", number |-> 2] }

PipeNumbers == { it.number : it \in PipeItems }

\* authors: a contributor, a trusted maintainer, a bot, and a trusted bot
Authors == { "alice", "maintainer", "dependabot[bot]", "renovate" }

\* isBot(login, userType)
isBot(login) == login \in { "dependabot[bot]", "dependabot", "renovate" }

\* quality scores of the delivered pull requests, in hundredths
Scores == { 50, 90 }

\* what the embedding provider can answer: no client (createOpenAIClient throws),
\* the empty vector (withRetry gave up), or a vector
ProviderOutcomes ==
    { [client |-> FALSE, embedding |-> <<>>], [client |-> TRUE, embedding |-> <<>>],
      [client |-> TRUE, embedding |-> <<1, 0>>], [client |-> TRUE, embedding |-> <<0, 1>>] }

MetricNames == { "prs_analyzed_total", "issues_analyzed_total", "duplicates_found_total",
                 "openai_calls_total", "errors_total", "openai_degraded_total",
                 "reopens_total", "commands_processed_total" }

inc(m, key, amount) == [m EXCEPT ![key] = @ + amount]

\* comment bodies: what they are and whether they carry summaryMarker()
buildSummaryComment == [kind |-> "summary", marker |-> TRUE]

buildDegradedComment == [kind |-> "degraded", marker |-> TRUE]

dailyLimitNotice == [kind |-> "daily_limit", marker |-> FALSE]

Title(number) == IF number = 1 THEN "title one" ELSE "title two"

PipeConfigs ==
    { [defaultConfig EXCEPT !.dry_run = d, !.daily_limit = l,
                            !.trusted_users = {"maintainer", "renovate"}] :
      d \in BOOLEAN, l \in 1 .. MaxDailyLimit }

PipeInit ==
    /\ now = 0
    /\ embeddings = {}
    /\ analyses = {}
    /\ rate_limits \in
         { {}, { [repo |-> PipeRepo, hour |-> hourOf(0),
                  openai_calls |-> OPENAI_BUDGET_PER_HOUR - 1] } }
    /\ installation_rate_limits \in
         { {}, incrementInstallationRateLimit({}, 101, 0) }
    /\ comments = [n \in PipeNumbers |-> <<>>]
    /\ labels = [n \in PipeNumbers |-> {}]
    /\ metrics = [k \in MetricNames |-> 0]
    /\ runs = IdleRuns
    /\ config \in PipeConfigs
    /\ callLog = [hourly |-> <<>>, daily |-> <<>>]
    /\ events = <<>>
    /\ lastOp = [op |-> "none"]

Goto(r, frame) == runs' = [runs EXCEPT ![r] = frame]

\* a variant that applies labels and posts the comment whatever dry_run is
AfterAnalysisIgnoresDryRun == "labels"

\* after the analysis: labels and comment unless dry_run
AfterAnalysis == IF config.dry_run THEN "finish" ELSE "labels"

\* the frame of a handler invoked for an event on an item
EventFrame(event, type, number, author, installationId, score) ==
    [IdleFrame EXCEPT !.event = event, !.type = type, !.number = number,
                      !.author = author, !.installationId = installationId,
                      !.score = score]

rateLimitedContinues(g) == [g EXCEPT !.pc = "embed", !.outcome = "rate_limited"]

\* if (!checkRateLimit(...)) { log.warn(...); return; }
rateLimited(g) == [g EXCEPT !.pc = "done", !.outcome = "rate_limited"]

skippedTrustedContinues(f) == [f EXCEPT !.pc = "embed", !.outcome = "skipped_trusted"]

\* if (config.trusted_users.includes(author)) { log.info(...); return; }
skippedTrusted(f) == [f EXCEPT !.pc = "done", !.outcome = "skipped_trusted"]

\* if (config.skip_bots && isBot(author, ...)) { log.info(...); return; }
skippedBot(f) == [f EXCEPT !.pc = "done", !.outcome = "skipped_bot"]

\* handlePR / handleIssue after loadRepoConfig, up to the first provider call:
\* the trusted and bot gates, the daily check (handleIssue only), the
\* hourly budget, and ensureLabels unless dry_run
Gates(r, f) ==
    /\ LET rateLimit == checkInstallationRateLimit(installation_rate_limits,
                                                   f.installationId, config.daily_limit, now)
       IN  IF f.author \in config.trusted_users
           THEN /\ Goto(r, skippedTrusted(f))
                /\ UNCHANGED rate_limits
           ELSE IF config.skip_bots /\ isBot(f.author)
           THEN /\ Goto(r, skippedBot(f))
                /\ UNCHANGED rate_limits
           ELSE IF f.type = "issue" /\ f.installationId # 0 /\ ~rateLimit.allowed
           THEN /\ Goto(r, [f EXCEPT !.pc = IF config.dry_run THEN "done" ELSE "listComments",
                                     !.used = rateLimit.used, !.checkDate = todayUTC(now),
                                     !.body = dailyLimitNotice,
                                     !.outcome = "daily_limited"])
                /\ UNCHANGED rate_limits
           ELSE /\ rate_limits' = rlIncrement(rate_limits, PipeRepo, hourOf(now))
                /\ LET g == IF f.type = "issue" /\ f.installationId # 0
                            THEN [f EXCEPT !.used = rateLimit.used,
                                           !.checkDate = todayUTC(now)]
                            ELSE f
                   IN  IF underBudget(rlRead(rate_limits', PipeRepo, hourOf(now)),
                                      OPENAI_BUDGET_PER_HOUR)
                       THEN Goto(r, [g EXCEPT !.pc = "embed",
                                              !.labelsEnsured = ~config.dry_run])
                       ELSE Goto(r, rateLimited(g))
    /\ UNCHANGED <<now, embeddings, analyses, installation_rate_limits,
                   comments, labels, config, callLog, lastOp, events>>

\* an opened or edited event: handlePR / handleIssue
Start(r, type, number, author, installationId, score) ==
    /\ runs[r].pc = "idle"
    /\ Gates(r, EventFrame("opened", type, number, author, installationId, score))
    /\ UNCHANGED metrics

isDegradedNever(embedding) == FALSE

\* embedding.length === 0
isDegraded(embedding) == Len(embedding) = 0

RecordOf(f) ==
    [repo |-> PipeRepo, type |-> f.type, number |-> f.number, title |-> Title(f.number),
     body |-> "body", diffSummary |-> IF f.type = "pr" THEN "diff" ELSE "",
     embedding |-> f.embedding]

\* labelsToApply of handleIssue
issueLabels(duplicates) ==
    IF Len(duplicates) > 0 THEN {"duplicate", "needs_review"} ELSE {"needs_review"}

\* createOpenAIClient and getEmbedding return; then either the degraded path
\* or upsertEmbedding, listEmbeddings, findDuplicates (and, for an issue,
\* upsertAnalysis)
Embed(r, res) ==
    /\ runs[r].pc = "embed"
    /\ LET f == [runs[r] EXCEPT !.embedded = TRUE, !.client = res.client,
                                !.embedding = res.embedding]
           called == IF res.client THEN inc(metrics, "openai_calls_total", 1) ELSE metrics
       IN  IF ~res.client \/ isDegraded(res.embedding)
           THEN /\ Goto(r, [f EXCEPT !.pc = AfterAnalysis,
                                     !.labelsToApply = {"needs_review"},
                                     !.body = buildDegradedComment,
                                     !.outcome = "degraded"])
                /\ metrics' = called
                /\ UNCHANGED <<embeddings, analyses, events>>
           ELSE /\ embeddings' = upsertEmbedding(embeddings, RecordOf(f), now)
                /\ \E existing \in listEmbeddings(embeddings', PipeRepo, DefaultListLimit) :
                     LET duplicates == findDuplicates(RecordOf(f), existing,
                                                      config.duplicate_threshold)
                     IN  /\ metrics' = inc(called, "duplicates_found_total", Len(duplicates))
                         /\ IF f.type = "issue"
                            THEN /\ analyses' = upsertAnalysis(analyses,
                                       [repo |-> PipeRepo, type |-> "issue",
                                        number |-> f.number, duplicates |-> duplicates,
                                        visionScore |-> NullNumber, visionReasoning |-> Null,
                                        recommendation |-> Null, prQualityScore |-> NullNumber])
                                 /\ Goto(r, [f EXCEPT !.pc = AfterAnalysis,
                                                      !.deduped = TRUE,
                                                      !.duplicates = duplicates,
                                                      !.labelsToApply = issueLabels(duplicates),
                                                      !.body = buildSummaryComment,
                                                      !.outcome = "complete"])
                            ELSE /\ UNCHANGED analyses
                                 /\ Goto(r, [f EXCEPT !.pc = "analyze",
                                                      !.deduped = TRUE,
                                                      !.duplicates = duplicates])
    /\ UNCHANGED <<now, rate_limits, installation_rate_limits,
                   comments, labels, config, callLog, lastOp, events>>

\* labelsToApply of handlePR (no vision configured)
prLabels(number, duplicates, bestPRNumber) ==
    {"needs_review"}
        \cup (IF Len(duplicates) > 0 THEN {"duplicate"} ELSE {})
        \cup (IF bestPRNumber = number /\ Len(duplicates) > 0 THEN {"recommended"} ELSE {})

\* handlePR after fetchContributorMergedPRs: scorePRQuality, pickBestPR, upsertAnalysis
Analyze(r) ==
    /\ runs[r].pc = "analyze"
    /\ LET f == runs[r]
           bestPRNumber == pickBestPR(f.number, f.duplicates, f.score, analyses, PipeRepo)
       IN  /\ analyses' = upsertAnalysis(analyses,
                 [repo |-> PipeRepo, type |-> "pr", number |-> f.number,
                  duplicates |-> f.duplicates,
                  visionScore |-> 50, visionReasoning |-> "No vision configured",
                  recommendation |-> recommendationOf(f.score),
                  prQualityScore |-> f.score])
           /\ Goto(r, [f EXCEPT !.pc = AfterAnalysis,
                                !.labelsToApply = prLabels(f.number, f.duplicates, bestPRNumber),
                                !.body = buildSummaryComment,
                                !.outcome = "complete"])
    /\ UNCHANGED <<now, embeddings, rate_limits, installation_rate_limits,
                   comments, labels, metrics, config, callLog, lastOp, events>>

\* applyLabels: octokit.issues.addLabels
Labels(r) ==
    /\ runs[r].pc = "labels"
    /\ labels' = [labels EXCEPT ![runs[r].number] = @ \cup runs[r].labelsToApply]
    /\ Goto(r, [runs[r] EXCEPT !.pc = "listComments",
                               !.labelsApplied = runs[r].labelsToApply])
    /\ UNCHANGED <<now, embeddings, analyses, rate_limits, installation_rate_limits,
                   comments, metrics, config, callLog, lastOp, events>>

\* comments.data.find(comment => comment.body?.includes(marker)): index or 0
findMarkerComment(cs) ==
    IF \E i \in DOMAIN cs : cs[i].marker
    THEN CHOOSE i \in DOMAIN cs : cs[i].marker /\ \A j \in DOMAIN cs : cs[j].marker => i <= j
    ELSE 0

\* listComments({ ..., per_page: 100 }): the first page of the item's comments
CommentsPerPage == 100

listCommentsAllPages(cs) == cs

listComments(cs) == SubSeq(cs, 1, Min(CommentsPerPage, Len(cs)))

\* upsertSummaryComment: octokit.issues.listComments, then find by marker
ListComments(r) ==
    /\ runs[r].pc = "listComments"
    /\ Goto(r, [runs[r] EXCEPT !.pc = "writeComment",
                               !.existing =
                                   findMarkerComment(listComments(comments[runs[r].number]))])
    /\ UNCHANGED <<now, embeddings, analyses, rate_limits, installation_rate_limits,
                   comments, labels, metrics, config, callLog, lastOp, events>>

\* upsertSummaryComment: updateComment if a marker comment was found, else createComment
WriteComment(r) ==
    /\ runs[r].pc = "writeComment"
    /\ LET f == runs[r]
       IN  /\ comments' = [comments EXCEPT ![f.number] =
                 IF f.existing # 0 THEN [@ EXCEPT ![f.existing] = f.body]
                 ELSE Append(@, f.body)]
           /\ Goto(r, [f EXCEPT !.pc = IF f.outcome = "daily_limited" THEN "done"
                                       ELSE "finish"])
    /\ UNCHANGED <<now, embeddings, analyses, rate_limits, installation_rate_limits,
                   labels, metrics, config, callLog, lastOp, events>>

analyzedMetric(type) == IF type = "pr" THEN "prs_analyzed_total" ELSE "issues_analyzed_total"

\* the end of the handler: the daily increment (handleIssue, full run only)
\* and the metrics
Finish(r) ==
    /\ runs[r].pc = "finish"
    /\ LET f == runs[r]
       IN  /\ installation_rate_limits' =
                 IF f.outcome = "complete" /\ f.type = "issue" /\ f.installationId # 0
                 THEN incrementInstallationRateLimit(installation_rate_limits,
                                                     f.installationId, now)
                 ELSE installation_rate_limits
           /\ metrics' =
                 IF f.outcome = "degraded"
                 THEN inc(inc(metrics, "openai_degraded_total", 1), analyzedMetric(f.type), 1)
                 ELSE inc(metrics, analyzedMetric(f.type), 1)
           /\ Goto(r, [f EXCEPT !.pc = "done"])
    /\ UNCHANGED <<now, embeddings, analyses, rate_limits,
                   comments, labels, config, callLog, lastOp, events>>

(***************************************************************************)
(* Failures, close and reopen events                                       *)
(***************************************************************************)
\* handlePR: octokit.pulls.listCommits / checks.listForRef / pulls.listFiles
\* reject; the error leaves handlePR and the event handler's catch counts it
GitHubReadFails(r) ==
    /\ runs[r].pc = "embed"
    /\ runs[r].type = "pr"
    /\ Goto(r, [runs[r] EXCEPT !.pc = "done", !.outcome = "error"])
    /\ metrics' = inc(metrics, "errors_total", 1)
    /\ UNCHANGED <<now, embeddings, analyses, rate_limits, installation_rate_limits,
                   comments, labels, config, callLog, lastOp, events>>

\* a variant in which the failed write is swallowed and the run goes on
UpsertEmbeddingFailsSwallowed(r, res) ==
    /\ runs[r].pc = "embed"
    /\ res.client /\ ~isDegraded(res.embedding)
    /\ Goto(r, [runs[r] EXCEPT !.pc = "labels", !.outcome = "error",
                               !.embedded = TRUE, !.client = res.client,
                               !.embedding = res.embedding])
    /\ metrics' = inc(inc(metrics, "openai_calls_total", 1), "errors_total", 1)
    /\ UNCHANGED <<now, embeddings, analyses, rate_limits, installation_rate_limits,
                   comments, labels, config, callLog, lastOp, events>>

\* upsertEmbedding throws (the store rejects the write) after the provider
\* returned a vector; the event handler's catch counts the error
UpsertEmbeddingFails(r, res) ==
    /\ runs[r].pc = "embed"
    /\ res.client /\ ~isDegraded(res.embedding)
    /\ Goto(r, [runs[r] EXCEPT !.pc = "done", !.outcome = "error",
                               !.embedded = TRUE, !.client = res.client,
                               !.embedding = res.embedding])
    /\ metrics' = inc(inc(metrics, "openai_calls_total", 1), "errors_total", 1)
    /\ UNCHANGED <<now, embeddings, analyses, rate_limits, installation_rate_limits,
                   comments, labels, config, callLog, lastOp, events>>

\* a closed event: handleClosed
HandleClosed(type, number) ==
    /\ embeddings' = deactivateEmbedding(embeddings, PipeRepo, type, number)
    /\ lastOp' = [op |-> "closed", key |-> Key(PipeRepo, type, number),
                  prior |-> KeyState(embeddings, Key(PipeRepo, type, number))]
    /\ UNCHANGED <<now, analyses, rate_limits, installation_rate_limits,
                   comments, labels, metrics, runs, config, callLog, events>>

\* a reopened event, up to the handler's first await: reactivateEmbedding,
\* inc("reopens_total"), then handlePR / handleIssue is entered
Reopened(r, type, number, author, installationId, score) ==
    /\ runs[r].pc = "idle"
    /\ embeddings' = reactivateEmbedding(embeddings, PipeRepo, type, number)
    /\ metrics' = inc(metrics, "reopens_total", 1)
    /\ Goto(r, [EventFrame("reopened", type, number, author, installationId, score)
                   EXCEPT !.pc = "gates",
                          !.reactivated =
                              reactivateChanges(embeddings, PipeRepo, type, number) > 0])
    /\ UNCHANGED <<now, analyses, rate_limits, installation_rate_limits,
                   comments, labels, config, callLog, lastOp, events>>

\* the re-analysis of a reopened item: handlePR / handleIssue after loadRepoConfig
ReopenedAnalysis(r) ==
    /\ runs[r].pc = "gates"
    /\ Gates(r, runs[r])
    /\ UNCHANGED metrics

\* the handlers that run concurrently in the pipeline specification
ConcurrentRuns == {1, 2}

PipeNext ==
    \/ (now < MaxPipeNow /\ Tick)
    \/ \E r \in ConcurrentRuns, it \in PipeItems, author \in Authors, installationId \in {101} :
         \E score \in IF it.type = "pr" THEN Scores ELSE {0} :
           Start(r, it.type, it.number, author, installationId, score)
    \/ \E r \in ConcurrentRuns, res \in ProviderOutcomes : Embed(r, res)
    \/ \E r \in ConcurrentRuns : Analyze(r)
    \/ \E r \in ConcurrentRuns : Labels(r)
    \/ \E r \in ConcurrentRuns : ListComments(r)
    \/ \E r \in ConcurrentRuns : WriteComment(r)
    \/ \E r \in ConcurrentRuns : Finish(r)

PipeSpec == PipeInit /\ [][PipeNext]_vars

(***************************************************************************)
(* The lifecycle specification: opened / edited, closed and reopened       *)
(* events handled one after another, with failures                         *)
(***************************************************************************)
\* a comment written by somebody else
userComment == [kind |-> "user", marker |-> FALSE]

LifeAuthors == { "alice" }

LifeScores == { 90 }

\* the provider gives up, or returns a vector
LifeProviderOutcomes ==
    { [client |-> TRUE, embedding |-> <<>>], [client |-> TRUE, embedding |-> <<1, 0>>] }

\* the repository's configuration: one analysis a day
LifeConfig == [defaultConfig EXCEPT !.daily_limit = 1]

LifeInit ==
    /\ now = 0
    /\ embeddings = {}
    /\ analyses = {}
    /\ rate_limits \in
         { {}, { [repo |-> PipeRepo, hour |-> hourOf(0),
                  openai_calls |-> OPENAI_BUDGET_PER_HOUR - 1] } }
    /\ installation_rate_limits = {}
    /\ comments = [n \in PipeNumbers |-> <<>>]
    /\ labels = [n \in PipeNumbers |-> {}]
    /\ metrics = [k \in MetricNames |-> 0]
    /\ runs = IdleRuns
    /\ config = LifeConfig
    /\ callLog = [hourly |-> <<>>, daily |-> <<>>]
    /\ events = <<>>
    /\ lastOp = [op |-> "none"]

\* no handler is between two of its steps
Quiescent == \A q \in RunIds : runs[q].pc \in {"idle", "done"}

\* the frame of a handler that returned long ago: its locals are gone
ReturnedFrame == [IdleFrame EXCEPT !.pc = "done"]

\* run slots are used in order, one event at a time; only the frame of the
\* handler that returned last is still observed
NextSlot(r) ==
    /\ Quiescent
    /\ \A q \in RunIds : q < r => runs[q].pc = "done"
    /\ \A q \in RunIds : q < r - 1 => runs[q] = ReturnedFrame

\* the frame of the handler before the last one is discarded
Return(q) ==
    /\ q + 1 \in RunIds
    /\ runs[q].pc = "done" /\ runs[q] # ReturnedFrame
    /\ runs[q + 1].pc = "done"
    /\ Goto(q, ReturnedFrame)
    /\ UNCHANGED <<now, embeddings, analyses, rate_limits, installation_rate_limits,
                   comments, labels, metrics, config, callLog, lastOp, events>>

\* (the clock is left alone: neither closing nor reopening reads it)
LifeNext ==
    \/ \E r \in RunIds, it \in PipeItems, author \in LifeAuthors :
         \E score \in IF it.type = "pr" THEN LifeScores ELSE {0} :
           NextSlot(r) /\ Start(r, it.type, it.number, author, 101, score)
    \/ \E r \in RunIds, it \in PipeItems, author \in LifeAuthors :
         \E score \in IF it.type = "pr" THEN LifeScores ELSE {0} :
           NextSlot(r) /\ Reopened(r, it.type, it.number, author, 101, score)
    \/ \E it \in PipeItems : Quiescent /\ HandleClosed(it.type, it.number)
    \/ \E r \in RunIds : Return(r)
    \/ \E r \in RunIds : ReopenedAnalysis(r)
    \/ \E r \in RunIds : GitHubReadFails(r)
    \/ \E r \in RunIds, res \in LifeProviderOutcomes : UpsertEmbeddingFails(r, res)
    \/ \E r \in RunIds, res \in LifeProviderOutcomes : Embed(r, res)
    \/ \E r \in RunIds : Analyze(r)
    \/ \E r \in RunIds : Labels(r)
    \/ \E r \in RunIds : ListComments(r)
    \/ \E r \in RunIds : WriteComment(r)
    \/ \E r \in RunIds : Finish(r)

LifeSpec == LifeInit /\ [][LifeNext]_vars

\* the count of a tenant's daily bucket
DailyCount(installationId, t) ==
    checkInstallationRateLimit(installation_rate_limits, installationId, 0, t).used

(***************************************************************************)
(* C9: two concurrent handleIssue runs of one tenant can both pass the     *)
(* daily check at used = daily_limit - 1 before either increments; both    *)
(* complete and the day's count ends at daily_limit + 1.                   *)
(***************************************************************************)
BothAdmittedAtLastSlot(r1, r2) ==
    /\ r1 # r2
    /\ \A r \in {r1, r2} :
         /\ runs[r].pc = "done"
         /\ runs[r].type = "issue"
         /\ runs[r].outcome = "complete"
         /\ runs[r].used = config.daily_limit - 1
         /\ runs[r].checkDate = todayUTC(now)
    /\ runs[r1].installationId = runs[r2].installationId

C9_CheckIncrementRace ==
    \A r1, r2 \in RunIds :
        BothAdmittedAtLastSlot(r1, r2) =>
            DailyCount(runs[r1].installationId, now) = config.daily_limit + 1

C9_Witness ==
    /\ BothAdmittedAtLastSlot(1, 2)
    /\ config.daily_limit = 2
    /\ DailyCount(runs[1].installationId, now) = 3
    /\ ~checkInstallationRateLimit(installation_rate_limits, runs[1].installationId,
                                   config.daily_limit, now).allowed

(***************************************************************************)
(* C10: when the provider client cannot be created or the embedding is the *)
(* empty vector, the run is degraded: it writes neither an embedding row   *)
(* nor an analysis row, runs no duplicate detection, applies only the      *)
(* needs-review label and the degraded comment, counts the item as         *)
(* analyzed and ends without an error.                                     *)
(***************************************************************************)
ProviderFailed(f) == f.embedded /\ (~f.client \/ Len(f.embedding) = 0)

C10_DegradedMode ==
    [][\A r \in RunIds :
         LET f == runs[r]
             g == runs'[r]
         IN  (g # f /\ ProviderFailed(g)) =>
               /\ embeddings' = embeddings
               /\ analyses' = analyses
               /\ g.outcome = "degraded"
               /\ ~g.deduped
               /\ g.labelsToApply = {"needs_review"}
               /\ g.body = buildDegradedComment
               /\ \A n \in PipeNumbers :
                    /\ labels'[n] \subseteq labels[n] \cup {"needs_review"}
                    /\ n # g.number => labels'[n] = labels[n] /\ comments'[n] = comments[n]
               /\ f.pc = "labels" => "needs_review" \in labels'[g.number]
               /\ f.pc = "writeComment" =>
                    \E i \in DOMAIN comments'[g.number] :
                        /\ comments'[g.number][i] = buildDegradedComment
                        /\ \A j \in DOMAIN comments[g.number] :
                             j # i => comments'[g.number][j] = comments[g.number][j]
               /\ f.pc # "writeComment" => comments' = comments
               /\ g.pc = "done" =>
                    /\ metrics'[analyzedMetric(g.type)] = metrics[analyzedMetric(g.type)] + 1
                    /\ metrics'["openai_degraded_total"] = metrics["openai_degraded_total"] + 1
                    /\ g.labelsApplied = IF config.dry_run THEN {} ELSE {"needs_review"}]_vars

C10_Witness ==
    /\ runs[1].pc = "done"
    /\ runs[1].type = "pr"
    /\ runs[1].client
    /\ runs[1].embedding = <<>>
    /\ runs[1].outcome = "degraded"
    /\ runs[2].pc = "idle"
    /\ ~config.dry_run
    /\ embeddings = {}
    /\ analyses = {}
    /\ labels[1] = {"needs_review"}
    /\ comments[1] = <<buildDegradedComment>>
    /\ metrics["prs_analyzed_total"] = 1

(***************************************************************************)
(* C11: a run that finds the hourly budget exceeded stops at that gate: it *)
(* calls no provider, writes no embedding and no analysis row, and changes *)
(* nothing but the hourly counter, which its own check incremented.        *)
(***************************************************************************)
C11_HourlyGateStops ==
    [][\A r \in RunIds :
         LET f == runs[r]
             g == runs'[r]
         IN  /\ (f.pc = "idle" /\ g # f /\ rate_limits' # rate_limits) =>
                   (g.outcome = "rate_limited") =
                     (HourlyCount(rate_limits', PipeRepo, hourOf(now)) > OPENAI_BUDGET_PER_HOUR)
             /\ (g # f /\ g.outcome = "rate_limited") =>
                   /\ g.pc = "done"
                   /\ ~g.embedded /\ ~g.deduped
                   /\ HourlyCount(rate_limits', PipeRepo, hourOf(now))
                        = HourlyCount(rate_limits, PipeRepo, hourOf(now)) + 1
                   /\ \A repo \in Repos, hour \in Hours :
                        <<repo, hour>> # <<PipeRepo, hourOf(now)>> =>
                            HourlyCount(rate_limits', repo, hour) = HourlyCount(rate_limits, repo, hour)
                   /\ UNCHANGED <<embeddings, analyses, installation_rate_limits,
                                  comments, labels, metrics, events>>
             /\ f.outcome = "rate_limited" => g = f]_vars

C11_Witness ==
    /\ runs[1].pc = "done"
    /\ runs[1].outcome = "rate_limited"
    /\ runs[1].type = "pr"
    /\ HourlyCount(rate_limits, PipeRepo, hourOf(now)) = OPENAI_BUDGET_PER_HOUR + 1
    /\ runs[2].pc = "done"
    /\ runs[2].outcome = "complete"
    /\ metrics["openai_calls_total"] = 1

(***************************************************************************)
(* C12: an event by a trusted author, or by a bot while skip_bots is set,  *)
(* is a no-op: no counter, store, label, comment or provider call; the     *)
(* trusted gate is taken before the bot gate, and both before the rate     *)
(* limit checks.                                                           *)
(***************************************************************************)
C12_TrustedAndBotSkipped ==
    [][\A r \in RunIds :
         LET f == runs[r]
             g == runs'[r]
         IN  /\ (f.pc = "idle" /\ g # f /\ g.event = "opened") =>
                   /\ g.author \in config.trusted_users => g.outcome = "skipped_trusted"
                   /\ (g.author \notin config.trusted_users /\ config.skip_bots
                          /\ isBot(g.author)) => g.outcome = "skipped_bot"
             /\ (g # f /\ g.outcome \in {"skipped_trusted", "skipped_bot"}) =>
                   /\ g.pc = "done"
                   /\ ~g.embedded
                   /\ g.used = -1
                   /\ g.labelsApplied = {}
                   /\ UNCHANGED <<rate_limits, installation_rate_limits, embeddings,
                                  analyses, comments, labels, metrics, events>>
             /\ f.outcome \in {"skipped_trusted", "skipped_bot"} => g = f]_vars

C12_Witness ==
    /\ runs[1].pc = "done"
    /\ runs[1].author = "renovate"
    /\ runs[1].outcome = "skipped_trusted"
    /\ runs[2].pc = "done"
    /\ runs[2].author = "dependabot[bot]"
    /\ runs[2].outcome = "skipped_bot"
    /\ runs[2].type = "issue"
    /\ rate_limits = {}
    /\ installation_rate_limits = {}
    /\ labels[2] = {}
    /\ comments[2] = <<>>

(***************************************************************************)
(* C13: the daily tenant counter is incremented exactly once by every run, *)
(* for a pull request or for an issue, that completes fully and            *)
(* non-degraded, and by no run that stops at a gate, degrades or fails.    *)
(***************************************************************************)
C13_DailyIncrementOnCompletion ==
    [][\A r \in RunIds :
         LET f == runs[r]
             g == runs'[r]
             before == checkInstallationRateLimit(installation_rate_limits,
                                                  g.installationId, 0, now).used
             after == checkInstallationRateLimit(installation_rate_limits',
                                                 g.installationId, 0, now').used
         IN  /\ (f.pc \notin {"idle", "done"} /\ g.pc # "done") => after = before
             /\ (f.pc # "done" /\ g.pc = "done") =>
                   after = before + (IF g.outcome = "complete" THEN 1 ELSE 0)]_vars

(***************************************************************************)
(* pickBestPR applied to bounded inputs                                    *)
(***************************************************************************)
\* the duplicates offered: two pull requests and an issue
PickCandidates ==
    { [type |-> "pr", number |-> 2, similarity |-> [num |-> 1, den2 |-> 1], title |-> "t2"],
      [type |-> "pr", number |-> 3, similarity |-> [num |-> 1, den2 |-> 1], title |-> "t3"],
      [type |-> "issue", number |-> 4, similarity |-> [num |-> 1, den2 |-> 1], title |-> "t4"] }

\* duplicate lists: no item twice
DupLists ==
    { d \in UNION { [1 .. n -> PickCandidates] : n \in 0 .. MaxDups } :
        \A i, j \in DOMAIN d : i # j => d[i] # d[j] }

PickScores == { 0, 50, 90 }

\* the analysis handlePR persists for a pull request with a quality score
PRAnalysis(number, score) ==
    [repo |-> PipeRepo, type |-> "pr", number |-> number, duplicates |-> <<>>,
     visionScore |-> 50, visionReasoning |-> "No vision configured",
     recommendation |-> recommendationOf(score), prQualityScore |-> score]

\* the analysis handleIssue persists
IssueAnalysis(number) ==
    [repo |-> PipeRepo, type |-> "issue", number |-> number, duplicates |-> <<>>,
     visionScore |-> NullNumber, visionReasoning |-> Null,
     recommendation |-> Null, prQualityScore |-> NullNumber]

\* analyses tables: each pull request analyzed with some score, or never
PickTables ==
    { LET t2 == IF s2 = NullNumber THEN {} ELSE upsertAnalysis({}, PRAnalysis(2, s2))
          t3 == IF s3 = NullNumber THEN t2 ELSE upsertAnalysis(t2, PRAnalysis(3, s3))
      IN  upsertAnalysis(t3, IssueAnalysis(4)) :
      s2 \in {NullNumber, 50, 90}, s3 \in {NullNumber, 50, 90} }

PickInit ==
    /\ now = 0
    /\ embeddings = {}
    /\ analyses \in PickTables
    /\ rate_limits = {}
    /\ installation_rate_limits = {}
    /\ comments = <<>>
    /\ labels = <<>>
    /\ metrics = <<>>
    /\ runs = IdleRuns
    /\ config = defaultConfig
    /\ callLog = [hourly |-> <<>>, daily |-> <<>>]
    /\ events = <<>>
    /\ lastOp = [op |-> "none"]

PickBestPR(currentNumber, duplicates, currentScore) ==
    /\ lastOp' = [op |-> "pickBestPR", currentNumber |-> currentNumber,
                  duplicates |-> duplicates, currentScore |-> currentScore,
                  ret |-> pickBestPR(currentNumber, duplicates, currentScore,
                                     analyses, PipeRepo)]
    /\ UNCHANGED <<now, embeddings, analyses, rate_limits, installation_rate_limits,
                   comments, labels, metrics, runs, config, callLog, events>>

PickNext ==
    \E duplicates \in DupLists, currentScore \in PickScores :
        PickBestPR(1, duplicates, currentScore)

PickSpec == PickInit /\ [][PickNext]_vars

\* the persisted quality score of pull request n, 0 when it has none
PersistedScore(n) ==
    LET rows == { row \in analyses : row.repo = PipeRepo /\ row.type = "pr" /\ row.number = n }
    IN  IF rows = {} THEN 0 ELSE (CHOOSE row \in rows : TRUE).pr_quality_score

(***************************************************************************)
(* C14: pickBestPR returns the current number when no duplicate is a pull  *)
(* request; otherwise the pull request duplicate with the highest          *)
(* persisted score if that score is strictly greater than the current      *)
(* score, else the current number.  No analysis counts as 0, a tie with    *)
(* the current item goes to it, a tie between duplicates to the earlier.   *)
(***************************************************************************)
C14_PickBestPR ==
    lastOp.op = "pickBestPR" =>
        LET d == lastOp.duplicates
            prs == { i \in DOMAIN d : d[i].type = "pr" }
            best == { i \in prs : \A j \in prs :
                          PersistedScore(d[j].number) <= PersistedScore(d[i].number) }
            first == CHOOSE i \in best : \A j \in best : i <= j
        IN  IF prs = {} THEN lastOp.ret = lastOp.currentNumber
            ELSE IF PersistedScore(d[first].number) > lastOp.currentScore
                 THEN lastOp.ret = d[first].number
                 ELSE lastOp.ret = lastOp.currentNumber

C14_Witness ==
    /\ lastOp.op = "pickBestPR"
    /\ Len(lastOp.duplicates) = 2
    /\ lastOp.duplicates[1].number = 3
    /\ lastOp.duplicates[2].number = 2
    /\ PersistedScore(2) = 90
    /\ PersistedScore(3) = 90
    /\ lastOp.currentScore = 50
    /\ lastOp.ret = 3

(***************************************************************************)
(* upsertAnalysis applied repeatedly                                       *)
(***************************************************************************)
AnalysisKeys == { Key(PipeRepo, "pr", 1), Key(PipeRepo, "issue", 1) }

\* analysis records for the pull request: every nullable field null or set,
\* independently; for the issue: what handleIssue writes, and a fully set one
AnalysisRecords ==
    { [repo |-> PipeRepo, type |-> "pr", number |-> 1, duplicates |-> d,
       visionScore |-> vs, visionReasoning |-> vr, recommendation |-> rec,
       prQualityScore |-> q] :
      d \in { <<>>, <<CHOOSE c \in PickCandidates : c.number = 2>> },
      vs \in { NullNumber, 50 }, vr \in { Null, "aligned" },
      rec \in { Null, "approve" }, q \in { NullNumber, 90 } }
    \cup { IssueAnalysis(1),
           [PRAnalysis(1, 90) EXCEPT !.type = "issue"] }

UpsertAnalysis(record) ==
    /\ analyses' = upsertAnalysis(analyses, record)
    /\ lastOp' = [op |-> "upsertAnalysis", record |-> record,
                  prior |-> getAnalysis(analyses, record.repo, record.type, record.number)]
    /\ UNCHANGED <<now, embeddings, rate_limits, installation_rate_limits,
                   comments, labels, metrics, runs, config, callLog, events>>

AnalysisNext == \E record \in AnalysisRecords : UpsertAnalysis(record)

AnalysisSpec == StoreInit /\ [][AnalysisNext]_vars

(***************************************************************************)
(* C15: upsertAnalysis is a full replace keyed by (repo, type, number):    *)
(* after any sequence of upserts a key has exactly one row, and every      *)
(* field read back is the one the last upsert for that key wrote, null     *)
(* fields included; upserts for another key leave the row alone.           *)
(***************************************************************************)
C15_UpsertAnalysisReplaces ==
    [][\A k \in AnalysisKeys :
         LET rec == lastOp'.record
             rows == { row \in analyses' : SameKey(row, k.repo, k.type, k.number) }
         IN  /\ Cardinality(rows) <= 1
             /\ IF Key(rec.repo, rec.type, rec.number) = k
                THEN /\ Cardinality(rows) = 1
                     /\ getAnalysis(analyses', k.repo, k.type, k.number) = rec
                ELSE getAnalysis(analyses', k.repo, k.type, k.number)
                       = getAnalysis(analyses, k.repo, k.type, k.number)]_vars

C15_Witness ==
    /\ lastOp.op = "upsertAnalysis"
    /\ lastOp.prior # NullRecord
    /\ lastOp.prior.prQualityScore = 90
    /\ lastOp.prior.recommendation = "approve"
    /\ lastOp.prior.duplicates # <<>>
    /\ lastOp.record.prQualityScore = NullNumber
    /\ lastOp.record.recommendation = Null
    /\ lastOp.record.duplicates = <<>>
    /\ getAnalysis(analyses, lastOp.record.repo, lastOp.record.type,
                   lastOp.record.number).prQualityScore = NullNumber

(***************************************************************************)
(* Lifecycle on items that already carry comments                          *)
(***************************************************************************)
\* comments other users left on an item before its first event: none, or a
\* full first page
ExistingComments == { <<>>, [i \in 1 .. CommentsPerPage |-> userComment] }

CommentInit ==
    /\ now = 0
    /\ embeddings = {}
    /\ analyses = {}
    /\ rate_limits = {}
    /\ installation_rate_limits = {}
    /\ comments \in [PipeNumbers -> ExistingComments]
    /\ labels = [n \in PipeNumbers |-> {}]
    /\ metrics = [k \in MetricNames |-> 0]
    /\ runs = IdleRuns
    /\ config = LifeConfig
    /\ callLog = [hourly |-> <<>>, daily |-> <<>>]
    /\ events = <<>>
    /\ lastOp = [op |-> "none"]

CommentSpec == CommentInit /\ [][LifeNext]_vars

MarkerComments(n) == { i \in DOMAIN comments[n] : comments[n][i].marker }

(***************************************************************************)
(* C16: after any sequence of full or degraded runs for an item, handled   *)
(* one after another with dry_run off, the item carries at most one        *)
(* comment with the summary marker, however many other comments it has.    *)
(***************************************************************************)
C16_OneMarkerComment ==
    \A n \in PipeNumbers : Cardinality(MarkerComments(n)) <= 1

(***************************************************************************)
(* The same event delivered again                                          *)
(***************************************************************************)
\* the stores after an earlier complete run for one item (vector [1, 0],
\* no duplicates), optionally followed by its closed event
StoredEmbedding(it, active) ==
    LET tbl == upsertEmbedding({}, RecordOf([type |-> it.type, number |-> it.number,
                                             embedding |-> <<1, 0>>]), 0)
    IN  IF active THEN tbl ELSE deactivateEmbedding(tbl, PipeRepo, it.type, it.number)

StoredAnalysis(it) ==
    upsertAnalysis({}, IF it.type = "pr" THEN PRAnalysis(it.number, 90)
                       ELSE IssueAnalysis(it.number))

RedeliverInit ==
    /\ now = 0
    /\ \/ embeddings = {} /\ analyses = {}
       \/ \E it \in PipeItems, active \in BOOLEAN :
            /\ embeddings = StoredEmbedding(it, active)
            /\ analyses = StoredAnalysis(it)
    /\ rate_limits = {}
    /\ installation_rate_limits = {}
    /\ comments = [n \in PipeNumbers |-> <<>>]
    /\ labels = [n \in PipeNumbers |-> {}]
    /\ metrics = [k \in MetricNames |-> 0]
    /\ runs = IdleRuns
    /\ config = defaultConfig
    /\ callLog = [hourly |-> <<>>, daily |-> <<>>]
    /\ events = <<>>
    /\ lastOp = [op |-> "none"]

\* events are handled one after another; the clock moves between them
RedeliverNext ==
    \/ (Quiescent /\ now < MaxPipeNow /\ Tick)
    \/ \E r \in RunIds, it \in PipeItems, author \in LifeAuthors :
         \E score \in IF it.type = "pr" THEN Scores ELSE {0} :
           NextSlot(r) /\ Start(r, it.type, it.number, author, 101, score)
    \/ \E r \in RunIds : Return(r)
    \/ \E r \in RunIds, res \in ProviderOutcomes : Embed(r, res)
    \/ \E r \in RunIds : Analyze(r)
    \/ \E r \in RunIds : Labels(r)
    \/ \E r \in RunIds : ListComments(r)
    \/ \E r \in RunIds : WriteComment(r)
    \/ \E r \in RunIds : Finish(r)

RedeliverSpec == RedeliverInit /\ [][RedeliverNext]_vars

\* the embeddings table without its timestamps
WithoutCreatedAt(tbl) == { [row EXCEPT !.created_at = 0] : row \in tbl }

\* run r handles the event the run before it handled to the end, and the
\* provider has returned the same vector to both
Redelivered(q, f) ==
    /\ runs[q].pc = "done"
    /\ runs[q].outcome \in {"complete", "degraded"}
    /\ runs[q].type = f.type /\ runs[q].number = f.number
    /\ runs[q].score = f.score
    /\ f.embedded /\ runs[q].embedding = f.embedding

(***************************************************************************)
(* C17: when the event a run has just handled to the end is handled again  *)
(* and the provider returns the same vector, the persisting steps of the   *)
(* second run leave the embeddings table (timestamps aside) and the        *)
(* analyses table as the first run left them.                              *)
(***************************************************************************)
C17_RedeliveryIdempotent ==
    [][\A r, q \in RunIds :
         (/\ q # r
          /\ runs[r].pc \in {"embed", "analyze"}
          /\ runs'[r].pc # runs[r].pc
          /\ Redelivered(q, runs'[r]))
         => /\ WithoutCreatedAt(embeddings') = WithoutCreatedAt(embeddings)
            /\ analyses' = analyses]_vars

C17_Witness ==
    \E r, q \in RunIds :
       /\ q # r
       /\ runs[r].pc = "done" /\ runs[r].outcome = "complete" /\ runs[r].type = "pr"
       /\ Redelivered(q, runs[r])
       /\ Len(runs[r].duplicates) = 1
       /\ runs[q].duplicates = runs[r].duplicates
       /\ \E row \in embeddings :
             SameKey(row, PipeRepo, "pr", runs[r].number) /\ row.created_at = 1
       /\ \E row \in embeddings :
             SameKey(row, PipeRepo, "issue", 2) /\ row.created_at = 0
       /\ getAnalysis(analyses, PipeRepo, "pr", runs[r].number).duplicates
             = runs[r].duplicates

\* the embeddings key of a duplicate match
KeyOf(d) == Key(PipeRepo, d.type, d.number)

(***************************************************************************)
(* C18: once a closed event for an item has been handled, the item is not  *)
(* Active, it stays so until it is reopened or upserted again, and no      *)
(* pipeline run for another item lists an item that is not Active among    *)
(* its duplicate matches.                                                  *)
(***************************************************************************)
C18_ClosedItemLeftOut ==
    [][/\ (lastOp' # lastOp /\ lastOp'.op = "closed")
            => KeyState(embeddings', lastOp'.key) # "Active"
       /\ \A it \in PipeItems :
            (/\ KeyState(embeddings, Key(PipeRepo, it.type, it.number)) = "Inactive"
             /\ KeyState(embeddings', Key(PipeRepo, it.type, it.number)) # "Inactive")
            => \E r \in RunIds :
                 /\ runs'[r].type = it.type /\ runs'[r].number = it.number
                 /\ \/ runs[r].pc = "idle" /\ runs'[r].event = "reopened"
                    \/ runs[r].pc = "embed" /\ runs'[r].deduped
       /\ \A r \in RunIds :
            (runs[r].pc = "embed" /\ runs'[r].deduped)
            => \A i \in DOMAIN runs'[r].duplicates :
                 KeyState(embeddings, KeyOf(runs'[r].duplicates[i])) = "Active"]_vars

C18_Witness ==
    /\ lastOp.op = "closed" /\ lastOp.prior = "Active"
    /\ KeyState(embeddings, lastOp.key) = "Inactive"
    /\ runs[1].pc = "done" /\ runs[1].outcome = "complete"
    /\ Key(PipeRepo, runs[1].type, runs[1].number) = lastOp.key
    /\ runs[2].pc = "done" /\ runs[2].outcome = "complete"
    /\ Key(PipeRepo, runs[2].type, runs[2].number) # lastOp.key
    /\ runs[2].embedding = runs[1].embedding
    /\ runs[2].duplicates = <<>>

\* every row of the embeddings table except the one of key k
OtherRows(tbl, k) == { row \in tbl : ~SameKey(row, k.repo, k.type, k.number) }

(***************************************************************************)
(* C19: handling a reopened event makes an Inactive embedding of the item  *)
(* Active before the re-analysis starts and changes nothing when the       *)
(* embedding is Absent or Active; in every case the pipeline is entered    *)
(* for the item, and a reactivated embedding is Active at every later step *)
(* of that run, whether it is stopped by a gate, degrades, fails or        *)
(* completes.                                                              *)
(***************************************************************************)
C19_ReopenedReactivates ==
    [][\A r \in RunIds :
         LET f == runs[r]
             g == runs'[r]
             k == Key(PipeRepo, g.type, g.number)
         IN  /\ (f.pc = "idle" /\ g.event = "reopened")
                  => /\ g.pc = "gates"
                     /\ g.reactivated = (KeyState(embeddings, k) = "Inactive")
                     /\ OtherRows(embeddings', k) = OtherRows(embeddings, k)
                     /\ IF KeyState(embeddings, k) = "Inactive"
                        THEN KeyState(embeddings', k) = "Active"
                        ELSE embeddings' = embeddings
             /\ (f.pc = "gates") => g.pc \in {"embed", "listComments", "done"}
             /\ (f.event = "reopened" /\ f.reactivated /\ f.pc # "done")
                  => KeyState(embeddings', k) = "Active"]_vars

C19_Witness ==
    \E r \in RunIds :
       /\ runs[r].event = "reopened" /\ runs[r].reactivated
       /\ runs[r].pc = "done" /\ runs[r].outcome = "error"
       /\ KeyState(embeddings, Key(PipeRepo, runs[r].type, runs[r].number)) = "Active"
       /\ lastOp.op = "closed"
       /\ lastOp.key = Key(PipeRepo, runs[r].type, runs[r].number)

(***************************************************************************)
(* findDuplicates applied to bounded inputs                                *)
(***************************************************************************)
\* the item analyzed, and the keys of the candidates: the item itself, the
\* issue with its number, and two other items
FindCurrentKey == Key(PipeRepo, "pr", 1)

FindKeys == { FindCurrentKey, Key(PipeRepo, "issue", 1),
              Key(PipeRepo, "pr", 2), Key(PipeRepo, "issue", 3) }

FindRecord(k, v) ==
    [repo |-> k.repo, type |-> k.type, number |-> k.number, title |-> Title(k.number),
     body |-> "body", diffSummary |-> "", embedding |-> v]

\* candidate lists as listEmbeddings returns them: one record per key
CandidateLists ==
    { c \in UNION { [1 .. n -> { FindRecord(k, v) : k \in FindKeys, v \in Vectors }] :
                      n \in 0 .. MaxCandidates } :
        \A i, j \in DOMAIN c : i # j => Key(c[i].repo, c[i].type, c[i].number)
                                          # Key(c[j].repo, c[j].type, c[j].number) }

Thresholds == { 50, 85, 100 }

\* a call of findDuplicates waiting to be made
FindInit ==
    /\ now = 0
    /\ embeddings = {}
    /\ analyses = {}
    /\ rate_limits = {}
    /\ installation_rate_limits = {}
    /\ comments = <<>>
    /\ labels = <<>>
    /\ metrics = <<>>
    /\ runs = IdleRuns
    /\ config = defaultConfig
    /\ callLog = [hourly |-> <<>>, daily |-> <<>>]
    /\ events = <<>>
    /\ \E v \in Vectors, existing \in CandidateLists, threshold \in Thresholds :
         lastOp = [op |-> "call", current |-> FindRecord(FindCurrentKey, v),
                   existing |-> existing, threshold |-> threshold]

FindDuplicates ==
    /\ lastOp.op = "call"
    /\ lastOp' = [op |-> "findDuplicates", current |-> lastOp.current,
                  existing |-> lastOp.existing, threshold |-> lastOp.threshold,
                  ret |-> findDuplicates(lastOp.current, lastOp.existing, lastOp.threshold)]
    /\ UNCHANGED <<now, embeddings, analyses, rate_limits, installation_rate_limits,
                   comments, labels, metrics, runs, config, callLog, events>>

FindNext == FindDuplicates

FindSpec == FindInit /\ [][FindNext]_vars

\* the similarity of candidate i of the last call to its current item
SimOf(i) == cosineSimilarity(lastOp.current.embedding, lastOp.existing[i].embedding)

\* the candidates the last call has to return
Kept ==
    { i \in DOMAIN lastOp.existing :
        /\ <<lastOp.existing[i].type, lastOp.existing[i].number>>
             # <<lastOp.current.type, lastOp.current.number>>
        /\ SimGE(SimOf(i), Hundredths(lastOp.threshold)) }

\* the place of kept candidate i: after the more similar ones and after the
\* equally similar ones that come before it in the candidate list
PlaceOf(i) ==
    1 + Cardinality({ j \in Kept : \/ ~SimGE(SimOf(i), SimOf(j))
                                     \/ (SimGE(SimOf(i), SimOf(j)) /\ SimGE(SimOf(j), SimOf(i))
                                         /\ j < i) })

(***************************************************************************)
(* C20: findDuplicates returns exactly the candidates whose (type, number) *)
(* differs from the current item's and whose similarity is at least the    *)
(* threshold (a candidate with the same number and another type is kept),  *)
(* ordered by similarity descending, equal similarities in candidate order.*)
(***************************************************************************)
C20_FindDuplicates ==
    lastOp.op = "findDuplicates" =>
        /\ Len(lastOp.ret) = Cardinality(Kept)
        /\ \A i \in Kept :
              lastOp.ret[PlaceOf(i)] =
                  [type |-> lastOp.existing[i].type, number |-> lastOp.existing[i].number,
                   similarity |-> SimOf(i), title |-> lastOp.existing[i].title]

C20_Witness ==
    /\ lastOp.op = "findDuplicates"
    /\ Len(lastOp.existing) = 3
    /\ lastOp.existing[2].type = "pr" /\ lastOp.existing[2].number = 1
    /\ Len(lastOp.ret) = 2
    /\ lastOp.ret[1].type = "pr" /\ lastOp.ret[1].number = 2
    /\ lastOp.ret[2].type = "issue" /\ lastOp.ret[2].number = 1
    /\ lastOp.existing[1].number = 2
    /\ lastOp.existing[1].embedding # lastOp.existing[3].embedding
    /\ SimGE(SimOf(1), SimOf(3)) /\ SimGE(SimOf(3), SimOf(1))
    /\ lastOp.threshold = 50

(***************************************************************************)
(* clusterDuplicates applied to bounded inputs                             *)
(***************************************************************************)
\* `${item.type}:${item.number}`
visitedKey(item) == <<item.type, item.number>>

atLeastThreshold(a, b, threshold) ==
    SimGE(cosineSimilarity(a.embedding, b.embedding), Hundredths(threshold))

\* a variant of the inner loop that admits a candidate similar to any member
RECURSIVE scanCandidatesTransitive(_, _, _, _, _, _)
scanCandidatesTransitive(items, j, item, threshold, members, visited) ==
    IF j > Len(items) THEN [members |-> members, visited |-> visited]
    ELSE LET candidate == items[j]
         IN  IF visitedKey(candidate) \in visited
             THEN scanCandidatesTransitive(items, j + 1, item, threshold, members, visited)
             ELSE IF \E m \in DOMAIN members :
                        atLeastThreshold(members[m], candidate, threshold)
                  THEN scanCandidatesTransitive(items, j + 1, item, threshold,
                                                Append(members, candidate),
                                                visited \cup {visitedKey(candidate)})
                  ELSE scanCandidatesTransitive(items, j + 1, item, threshold,
                                                members, visited)

\* for (const candidate of items): skip visited candidates, push and mark
\* those with similarity to the anchor >= threshold
RECURSIVE scanCandidates(_, _, _, _, _, _)
scanCandidates(items, j, item, threshold, members, visited) ==
    IF j > Len(items) THEN [members |-> members, visited |-> visited]
    ELSE LET candidate == items[j]
         IN  IF visitedKey(candidate) \in visited
             THEN scanCandidates(items, j + 1, item, threshold, members, visited)
             ELSE IF atLeastThreshold(item, candidate, threshold)
                  THEN scanCandidates(items, j + 1, item, threshold,
                                      Append(members, candidate),
                                      visited \cup {visitedKey(candidate)})
                  ELSE scanCandidates(items, j + 1, item, threshold, members, visited)

\* for (const item of items): skip visited items, otherwise open a cluster
RECURSIVE clusterLoop(_, _, _, _, _)
clusterLoop(items, i, threshold, clusters, visited) ==
    IF i > Len(items) THEN clusters
    ELSE LET item == items[i]
         IN  IF visitedKey(item) \in visited
             THEN clusterLoop(items, i + 1, threshold, clusters, visited)
             ELSE LET res == scanCandidates(items, 1, item, threshold, <<item>>,
                                            visited \cup {visitedKey(item)})
                  IN  clusterLoop(items, i + 1, threshold,
                                  Append(clusters, [anchor |-> item, members |-> res.members]),
                                  res.visited)

\* a variant that returns every cluster, single-member ones included
clusterDuplicatesUnfiltered(items, threshold) ==
    clusterLoop(items, 1, threshold, <<>>, {})

\* clusterDuplicates(items, threshold)
clusterDuplicates(items, threshold) ==
    LET moreThanOne(cluster) == Len(cluster.members) > 1
    IN  SelectSeq(clusterLoop(items, 1, threshold, <<>>, {}), moreThanOne)

\* a call of clusterDuplicates waiting to be made
ClusterInit ==
    /\ now = 0
    /\ embeddings = {}
    /\ analyses = {}
    /\ rate_limits = {}
    /\ installation_rate_limits = {}
    /\ comments = <<>>
    /\ labels = <<>>
    /\ metrics = <<>>
    /\ runs = IdleRuns
    /\ config = defaultConfig
    /\ callLog = [hourly |-> <<>>, daily |-> <<>>]
    /\ events = <<>>
    /\ \E items \in CandidateLists, threshold \in Thresholds :
         lastOp = [op |-> "clusterCall", items |-> items, threshold |-> threshold]

ClusterDuplicates ==
    /\ lastOp.op = "clusterCall"
    /\ lastOp' = [op |-> "clusterDuplicates", items |-> lastOp.items,
                  threshold |-> lastOp.threshold,
                  ret |-> clusterDuplicates(lastOp.items, lastOp.threshold)]
    /\ UNCHANGED <<now, embeddings, analyses, rate_limits, installation_rate_limits,
                   comments, labels, metrics, runs, config, callLog, events>>

ClusterNext == ClusterDuplicates

ClusterSpec == ClusterInit /\ [][ClusterNext]_vars

\* the position in the input list of an item of the last call
InputIndex(item) == CHOOSE i \in DOMAIN lastOp.items : lastOp.items[i] = item

\* the items of the last call are pairwise at or above its threshold
AllPairwiseSimilar ==
    \A i, j \in DOMAIN lastOp.items :
       i # j => atLeastThreshold(lastOp.items[i], lastOp.items[j], lastOp.threshold)

(***************************************************************************)
(* C21: for an input with distinct keys, no item of clusterDuplicates'     *)
(* result is in two clusters, every cluster has at least two members, the  *)
(* anchor is the first member and the earliest of its cluster in input     *)
(* order, every other member is at or above the threshold against the      *)
(* anchor; an empty or single-item input gives no cluster, and items that  *)
(* are all pairwise above threshold give exactly one cluster of them all.  *)
(***************************************************************************)
C21_ClusterInvariants ==
    lastOp.op = "clusterDuplicates" =>
        LET ret == lastOp.ret
            items == lastOp.items
        IN  /\ \A c, d \in DOMAIN ret : \A m \in DOMAIN ret[c].members,
                                           n \in DOMAIN ret[d].members :
                  ret[c].members[m] = ret[d].members[n] => (c = d /\ m = n)
            /\ \A c \in DOMAIN ret :
                  /\ Len(ret[c].members) >= 2
                  /\ ret[c].members[1] = ret[c].anchor
                  /\ \A m \in DOMAIN ret[c].members :
                        /\ \E i \in DOMAIN items : items[i] = ret[c].members[m]
                        /\ m > 1 =>
                             /\ InputIndex(ret[c].anchor) < InputIndex(ret[c].members[m])
                             /\ atLeastThreshold(ret[c].anchor, ret[c].members[m],
                                                 lastOp.threshold)
            /\ Len(items) <= 1 => ret = <<>>
            /\ (Len(items) >= 2 /\ AllPairwiseSimilar) =>
                  /\ Len(ret) = 1
                  /\ { ret[1].members[m] : m \in DOMAIN ret[1].members }
                       = { items[i] : i \in DOMAIN items }

C21_Witness ==
    /\ lastOp.op = "clusterDuplicates"
    /\ Len(lastOp.items) = 3
    /\ AllPairwiseSimilar
    /\ lastOp.items[1].embedding # lastOp.items[2].embedding
    /\ Len(lastOp.ret) = 1
    /\ Len(lastOp.ret[1].members) = 3

\* greedy assignment, by input position: an item opens a cluster when no
\* earlier cluster-opening item is at or above the threshold against it
RECURSIVE OpensCluster(_)
OpensCluster(j) ==
    \A a \in 1 .. (j - 1) :
       OpensCluster(a) => ~atLeastThreshold(lastOp.items[a], lastOp.items[j], lastOp.threshold)

\* the first cluster-opening item an item is at or above the threshold against
OwnerOf(j) ==
    IF OpensCluster(j) THEN j
    ELSE CHOOSE a \in 1 .. (j - 1) :
           /\ OpensCluster(a)
           /\ atLeastThreshold(lastOp.items[a], lastOp.items[j], lastOp.threshold)
           /\ \A b \in 1 .. (a - 1) :
                 OpensCluster(b) =>
                   ~atLeastThreshold(lastOp.items[b], lastOp.items[j], lastOp.threshold)

MembersOf(a) == { j \in DOMAIN lastOp.items : OwnerOf(j) = a }

(***************************************************************************)
(* C22: clusterDuplicates is greedy and non-transitive: each item that is  *)
(* not itself opening a cluster joins the first cluster-opening item in    *)
(* input order it matches, whatever its similarity to the other members;   *)
(* matching a non-anchor member pulls nothing in; a member never anchors a *)
(* cluster.  The result is exactly the clusters so formed that have more   *)
(* than one member, in input order, members in input order.                *)
(***************************************************************************)
C22_GreedyNonTransitive ==
    lastOp.op = "clusterDuplicates" =>
        LET ret == lastOp.ret
            items == lastOp.items
            anchors == { a \in DOMAIN items : OpensCluster(a) /\ Cardinality(MembersOf(a)) > 1 }
        IN  /\ Len(ret) = Cardinality(anchors)
            /\ \A c \in DOMAIN ret :
                  LET a == InputIndex(ret[c].anchor)
                  IN  /\ a \in anchors
                      /\ c = Cardinality({ b \in anchors : b <= a })
                      /\ Len(ret[c].members) = Cardinality(MembersOf(a))
                      /\ \A m \in DOMAIN ret[c].members :
                            LET j == InputIndex(ret[c].members[m])
                            IN  /\ j \in MembersOf(a)
                                /\ m = Cardinality({ k \in MembersOf(a) : k <= j })

C22_Witness ==
    /\ lastOp.op = "clusterDuplicates"
    /\ Len(lastOp.ret) = 1
    /\ Len(lastOp.ret[1].members) = 3
    /\ ~atLeastThreshold(lastOp.ret[1].members[2], lastOp.ret[1].members[3],
                         lastOp.threshold)

(***************************************************************************)
(* scorePRQuality as handlePR calls it                                     *)
(***************************************************************************)
\* defaultConfig.quality_thresholds, in hundredths
defaultQualityThresholds == [approve |-> ApproveThreshold, reject |-> RejectThreshold]

\* quality_thresholds a repository can configure
QualityThresholds ==
    { defaultQualityThresholds, [approve |-> 90, reject |-> 60],
      [approve |-> 50, reject |-> 20] }

\* scores in hundredths
QualityScores == 0 .. 100

\* scorePRQuality({...}, config.quality_thresholds): the function declares
\* one parameter, the second argument is not read
scorePRQualityRecommendation(score, quality_thresholds) == recommendationOf(score)

QualityInit ==
    /\ now = 0
    /\ embeddings = {}
    /\ analyses = {}
    /\ rate_limits = {}
    /\ installation_rate_limits = {}
    /\ comments = <<>>
    /\ labels = <<>>
    /\ metrics = <<>>
    /\ runs = IdleRuns
    /\ config = defaultConfig
    /\ callLog = [hourly |-> <<>>, daily |-> <<>>]
    /\ events = <<>>
    /\ \E score \in QualityScores, thresholds \in QualityThresholds :
         lastOp = [op |-> "qualityCall", score |-> score, quality_thresholds |-> thresholds]

ScorePRQuality ==
    /\ lastOp.op = "qualityCall"
    /\ lastOp' = [op |-> "scorePRQuality", score |-> lastOp.score,
                  quality_thresholds |-> lastOp.quality_thresholds,
                  recommendation |->
                      scorePRQualityRecommendation(lastOp.score, lastOp.quality_thresholds)]
    /\ UNCHANGED <<now, embeddings, analyses, rate_limits, installation_rate_limits,
                   comments, labels, metrics, runs, config, callLog, events>>

QualityNext == ScorePRQuality

QualitySpec == QualityInit /\ [][QualityNext]_vars

(***************************************************************************)
(* C23: the recommendation follows the configured thresholds: approve if   *)
(* and only if score >= quality_thresholds.approve, reject if and only if  *)
(* score < quality_thresholds.reject, review otherwise.                    *)
(***************************************************************************)
C23_ConfiguredThresholds ==
    lastOp.op = "scorePRQuality" =>
        /\ (lastOp.recommendation = "approve")
              <=> (lastOp.score >= lastOp.quality_thresholds.approve)
        /\ (lastOp.recommendation = "reject")
              <=> (lastOp.score < lastOp.quality_thresholds.reject)
        /\ lastOp.recommendation \in {"approve", "review", "reject"}

\* the installation of frame f has used up its daily analyses
DailyLimitReached(f) ==
    /\ f.installationId # 0
    /\ ~checkInstallationRateLimit(installation_rate_limits, f.installationId,
                                   config.daily_limit, now).allowed

(***************************************************************************)
(* C24: when the installation's daily count has reached daily_limit, a     *)
(* pull_request event gets the daily-limit notice and no analysis: the run *)
(* leaves the gates with the notice as its comment, and makes no provider  *)
(* call and writes no embedding or analysis row afterwards.                *)
(***************************************************************************)
C24_PRDailyLimitNotice ==
    [][\A r \in RunIds :
         LET f == runs[r]
             g == runs'[r]
         IN  /\ (/\ f.pc \in {"idle", "gates"} /\ g.pc \notin {"idle", "gates"}
                 /\ g.type = "pr"
                 /\ g.outcome \notin {"skipped_trusted", "skipped_bot"}
                 /\ DailyLimitReached(g))
                => (g.outcome = "daily_limited" /\ g.body = dailyLimitNotice)
             /\ (f.type = "pr" /\ f.outcome = "daily_limited")
                => /\ embeddings' = embeddings
                   /\ analyses' = analyses
                   /\ metrics'["openai_calls_total"] = metrics["openai_calls_total"]]_vars

\* the step of run r surfaces nothing on the item and calls no provider
NothingSurfaced(r) ==
    /\ comments' = comments
    /\ labels' = labels
    /\ embeddings' = embeddings
    /\ analyses' = analyses
    /\ metrics'["openai_calls_total"] = metrics["openai_calls_total"]
    /\ ~runs'[r].embedded

(***************************************************************************)
(* C25: a run stopped because the hourly or the daily budget is exceeded   *)
(* makes no provider call and surfaces nothing on the item: at none of its *)
(* steps is a comment created or updated or a label applied.               *)
(***************************************************************************)
C25_BudgetExceededSilent ==
    [][\A r \in RunIds :
         (runs'[r] # runs[r] /\ runs'[r].outcome \in {"rate_limited", "daily_limited"})
         => NothingSurfaced(r)]_vars

(***************************************************************************)
(* Runs interrupted between the two store writes                           *)
(***************************************************************************)
\* handlePR: upsertAnalysis throws (the store rejects the write); the
\* embedding is already written, the event handler's catch counts the error
PRAnalysisFails(r) ==
    /\ runs[r].pc = "analyze"
    /\ Goto(r, [runs[r] EXCEPT !.pc = "done", !.outcome = "error"])
    /\ metrics' = inc(metrics, "errors_total", 1)
    /\ UNCHANGED <<now, embeddings, analyses, rate_limits, installation_rate_limits,
                   comments, labels, config, callLog, lastOp, events>>

\* handleIssue: getEmbedding returns a vector, upsertEmbedding and
\* findDuplicates succeed, then upsertAnalysis throws
IssueAnalysisFails(r, res) ==
    /\ runs[r].pc = "embed"
    /\ runs[r].type = "issue"
    /\ res.client /\ ~isDegraded(res.embedding)
    /\ LET f == [runs[r] EXCEPT !.embedded = TRUE, !.client = res.client,
                                !.embedding = res.embedding]
       IN  /\ embeddings' = upsertEmbedding(embeddings, RecordOf(f), now)
           /\ \E existing \in listEmbeddings(embeddings', PipeRepo, DefaultListLimit) :
                LET duplicates == findDuplicates(RecordOf(f), existing,
                                                 config.duplicate_threshold)
                IN  /\ metrics' = inc(inc(inc(metrics, "openai_calls_total", 1),
                                          "duplicates_found_total", Len(duplicates)),
                                      "errors_total", 1)
                    /\ Goto(r, [f EXCEPT !.pc = "done", !.deduped = TRUE,
                                         !.duplicates = duplicates,
                                         !.outcome = "error"])
    /\ UNCHANGED <<now, analyses, rate_limits, installation_rate_limits,
                   comments, labels, config, callLog, lastOp, events>>

InterruptNext ==
    \/ RedeliverNext
    \/ \E r \in RunIds, res \in ProviderOutcomes : UpsertEmbeddingFails(r, res)
    \/ \E r \in RunIds : PRAnalysisFails(r)
    \/ \E r \in RunIds, res \in ProviderOutcomes : IssueAnalysisFails(r, res)

InterruptSpec == RedeliverInit /\ [][InterruptNext]_vars

\* the embeddings row an uninterrupted run with frame g writes, timestamp aside
WrittenEmbedding(g) == WithoutCreatedAt(upsertEmbedding({}, RecordOf(g), 0))

\* the analysis an uninterrupted run with frame g writes
WrittenAnalysis(g) ==
    [repo |-> PipeRepo, type |-> g.type, number |-> g.number, duplicates |-> g.duplicates,
     visionScore |-> IF g.type = "pr" THEN 50 ELSE NullNumber,
     visionReasoning |-> IF g.type = "pr" THEN "No vision configured" ELSE Null,
     recommendation |-> IF g.type = "pr" THEN recommendationOf(g.score) ELSE Null,
     prQualityScore |-> IF g.type = "pr" THEN g.score ELSE NullNumber]

\* the duplicate lists a run with frame g computes from table tbl
DuplicatesFrom(tbl, g) ==
    { findDuplicates(RecordOf(g), existing, config.duplicate_threshold) :
        existing \in listEmbeddings(tbl, PipeRepo, DefaultListLimit) }

\* run q stopped after its embedding upsert and before its analysis upsert,
\* handling the event of frame g
StoppedBeforeAnalysis(q, g) ==
    /\ runs[q].pc = "done" /\ runs[q].outcome = "error" /\ runs[q].deduped
    /\ runs[q].type = g.type /\ runs[q].number = g.number /\ runs[q].score = g.score

(***************************************************************************)
(* C26: a run that stops after upsertEmbedding and before upsertAnalysis   *)
(* leaves the new embedding and an unchanged (missing or stale) analysis;  *)
(* when the same event is then handled to completion, the item's embedding *)
(* row and analysis row are the ones an uninterrupted run writes.          *)
(***************************************************************************)
C26_InterruptedThenRedelivered ==
    [][\A r \in RunIds :
         LET f == runs[r]
             g == runs'[r]
             k == Key(PipeRepo, g.type, g.number)
         IN  /\ (f.pc \in {"embed", "analyze"} /\ g.outcome = "error" /\ g.deduped)
                => /\ RowsOf(WithoutCreatedAt(embeddings'), k) = WrittenEmbedding(g)
                   /\ analyses' = analyses
             /\ (/\ f.pc \in {"embed", "analyze"} /\ g.outcome = "complete"
                 /\ \E q \in RunIds : q # r /\ StoppedBeforeAnalysis(q, g))
                => /\ RowsOf(WithoutCreatedAt(embeddings'), k) = WrittenEmbedding(g)
                   /\ g.duplicates \in DuplicatesFrom(embeddings', g)
                   /\ getAnalysis(analyses', k.repo, k.type, k.number) = WrittenAnalysis(g)
                   /\ Cardinality(RowsOf(analyses', k)) = 1]_vars

C26_Witness ==
    \E r, q \in RunIds :
       /\ q # r /\ StoppedBeforeAnalysis(q, runs[r])
       /\ runs[r].pc = "done" /\ runs[r].outcome = "complete"
       /\ runs[r].type = "pr" /\ runs[r].score = 50
       /\ Len(runs[r].duplicates) = 1
       /\ getAnalysis(analyses, PipeRepo, "pr", runs[r].number) = WrittenAnalysis(runs[r])

(***************************************************************************)
(* cosineSimilarity in double precision                                    *)
(***************************************************************************)
\* vectors with small integer components: empty, of another length, of
\* zero magnitude, along an axis, and off the axes
FloatVectors ==
    { <<>>, <<1>>, <<0, 0>>, <<1, 0>>, <<0, 1>>, <<1, 1>>, <<2, 0>>, <<1, 2>>, <<2, 2>>,
      <<0 - 1, 0>>, <<0 - 1, 0 - 1>> }

IsSquare(m) == \E k \in 0 .. m : k * k = m

\* dot / (Math.sqrt(magA) * Math.sqrt(magB)) in IEEE-754 doubles, for the
\* magnitudes of FloatVectors: Math.sqrt is exact on perfect squares and
\* rounded otherwise, and the product of two rounded roots is not the root
\* of the product (sqrt(2) * sqrt(2) = 2.0000000000000004, sqrt(5) * sqrt(5)
\* = 5.000000000000001, sqrt(2) * sqrt(8) = 4.000000000000001); a zero
\* dividend gives exactly 0
quotientIsExact(dot, magA, magB) == dot = 0 \/ (IsSquare(magA) /\ IsSquare(magB))

\* the double cosineSimilarity returns: the real number sim when exact is
\* TRUE, a neighbouring double otherwise
cosineSimilarityDouble(a, b) ==
    IF Len(a) = 0 \/ Len(b) = 0 \/ Len(a) # Len(b) THEN [sim |-> SimZero, exact |-> TRUE]
    ELSE IF SumTo(a, a, Len(a)) = 0 \/ SumTo(b, b, Len(b)) = 0
         THEN [sim |-> SimZero, exact |-> TRUE]
         ELSE [sim |-> cosineSimilarity(a, b),
               exact |-> quotientIsExact(SumTo(a, b, Len(a)), SumTo(a, a, Len(a)),
                                         SumTo(b, b, Len(b)))]

CosineInit ==
    /\ now = 0
    /\ embeddings = {}
    /\ analyses = {}
    /\ rate_limits = {}
    /\ installation_rate_limits = {}
    /\ comments = <<>>
    /\ labels = <<>>
    /\ metrics = <<>>
    /\ runs = IdleRuns
    /\ config = defaultConfig
    /\ callLog = [hourly |-> <<>>, daily |-> <<>>]
    /\ events = <<>>
    /\ \E a \in FloatVectors, b \in FloatVectors :
         lastOp = [op |-> "cosineCall", a |-> a, b |-> b]

CosineSimilarity ==
    /\ lastOp.op = "cosineCall"
    /\ lastOp' = [op |-> "cosineSimilarity", a |-> lastOp.a, b |-> lastOp.b,
                  ret |-> cosineSimilarityDouble(lastOp.a, lastOp.b),
                  swapped |-> cosineSimilarityDouble(lastOp.b, lastOp.a)]
    /\ UNCHANGED <<now, embeddings, analyses, rate_limits, installation_rate_limits,
                   comments, labels, metrics, runs, config, callLog, events>>

CosineNext == CosineSimilarity

CosineSpec == CosineInit /\ [][CosineNext]_vars

ZeroMagnitude(v) == \A i \in DOMAIN v : v[i] = 0

\* the call returns the double 0 (the double 1)
ReturnsZero(ret) == ret.exact /\ ret.sim.num = 0

ReturnsOne(ret) == ret.exact /\ ret.sim.num > 0 /\ ret.sim.num * ret.sim.num = ret.sim.den2

\* the number the call approximates is 1
IsOneInExactArithmetic(ret) == ret.sim.num > 0 /\ ret.sim.num * ret.sim.num = ret.sim.den2

\* the parts of the claim that hold as stated
ZeroCasesAndSymmetry ==
    /\ (\/ Len(lastOp.a) = 0 \/ Len(lastOp.b) = 0 \/ Len(lastOp.a) # Len(lastOp.b)
        \/ ZeroMagnitude(lastOp.a) \/ ZeroMagnitude(lastOp.b))
          => ReturnsZero(lastOp.ret)
    /\ lastOp.ret = lastOp.swapped

(***************************************************************************)
(* C27 as stated: cosineSimilarity returns exactly 0 for an empty vector,  *)
(* differing lengths or a zero magnitude, returns 1 for two equal nonzero  *)
(* vectors, and does not depend on the order of its arguments.             *)
(***************************************************************************)
C27_CosineAsStated ==
    lastOp.op = "cosineSimilarity" =>
        /\ ZeroCasesAndSymmetry
        /\ (lastOp.a = lastOp.b /\ Len(lastOp.a) > 0 /\ ~ZeroMagnitude(lastOp.a))
              => ReturnsOne(lastOp.ret)

(***************************************************************************)
(* C27 amended: the zero cases return exactly 0 and the result does not    *)
(* depend on the order of the arguments; for two equal nonzero vectors the *)
(* result is 1 up to floating-point rounding, and exactly 1 when the       *)
(* squared magnitude is a perfect square.                                  *)
(***************************************************************************)
C27_CosineUpToRounding ==
    lastOp.op = "cosineSimilarity" =>
        /\ ZeroCasesAndSymmetry
        /\ (lastOp.a = lastOp.b /\ Len(lastOp.a) > 0 /\ ~ZeroMagnitude(lastOp.a))
              => /\ IsOneInExactArithmetic(lastOp.ret)
                 /\ IsSquare(SumTo(lastOp.a, lastOp.a, Len(lastOp.a)))
                      => ReturnsOne(lastOp.ret)

C27_Witness ==
    /\ lastOp.op = "cosineSimilarity"
    /\ lastOp.a = <<1, 1>> /\ lastOp.b = <<1, 1>>
    /\ IsOneInExactArithmetic(lastOp.ret)
    /\ ~ReturnsOne(lastOp.ret)

\* the step at which a store write of run r throws
StoreWriteFails(r) ==
    /\ runs[r].pc \in {"embed", "analyze"}
    /\ runs[r].outcome # "error"
    /\ runs'[r].outcome = "error"

(***************************************************************************)
(* C28: when upsertEmbedding or upsertAnalysis throws, the run ends at     *)
(* that step: the event handler counts one error, the analyses table, the  *)
(* comments, the labels and the daily counter are left as they were (and   *)
(* the embeddings table too when it was the embedding write that failed),  *)
(* the run is not counted as analysed, and the run takes no further step.  *)
(***************************************************************************)
C28_StoreFailureEndsRun ==
    [][\A r \in RunIds :
         LET f == runs[r]
             g == runs'[r]
         IN  /\ StoreWriteFails(r)
                => /\ g.pc = "done"
                   /\ metrics'["errors_total"] = metrics["errors_total"] + 1
                   /\ metrics'[analyzedMetric(g.type)] = metrics[analyzedMetric(g.type)]
                   /\ analyses' = analyses
                   /\ comments' = comments
                   /\ labels' = labels
                   /\ installation_rate_limits' = installation_rate_limits
                   /\ ~g.deduped => embeddings' = embeddings
             /\ (f.outcome = "error" /\ g # f)
                => /\ g = ReturnedFrame
                   /\ UNCHANGED <<embeddings, analyses, comments, labels, metrics,
                                  installation_rate_limits>>]_vars

C28_Witness ==
    \E r \in RunIds :
       /\ runs[r].pc = "done" /\ runs[r].outcome = "error"
       /\ runs[r].embedded /\ ~runs[r].deduped
       /\ metrics["errors_total"] = 1
       /\ RowsOf(embeddings, Key(PipeRepo, runs[r].type, runs[r].number)) = {}
       /\ RowsOf(analyses, Key(PipeRepo, runs[r].type, runs[r].number)) = {}
       /\ comments[runs[r].number] = <<>>
       /\ labels[runs[r].number] = {}

(***************************************************************************)
(* getEmbedding and withRetry                                              *)
(***************************************************************************)
MAX_RETRIES == 3

Whitespace == { " ", "\n" }

\* texts as sequences of characters: empty, blank, and with content
EmbeddingInputs ==
    { <<>>, <<" ">>, <<" ", "\n">>, <<"a">>, <<" ", "a">>, <<"a", " ">>, <<" ", "a", "\n">> }

RECURSIVE trimStart(_)
trimStart(text) ==
    IF Len(text) > 0 /\ Head(text) \in Whitespace THEN trimStart(Tail(text)) ELSE text

RECURSIVE trimEnd(_)
trimEnd(text) ==
    IF Len(text) > 0 /\ text[Len(text)] \in Whitespace
    THEN trimEnd(SubSeq(text, 1, Len(text) - 1))
    ELSE text

\* String.prototype.trim
trim(text) == trimEnd(trimStart(text))

\* what client.embeddings.create does on one attempt: it throws one of the
\* provider's errors, or resolves with or without a first data element
ProviderErrors ==
    { "RateLimitError", "InternalServerError", "APIConnectionError", "AuthenticationError" }

ProviderReplies == ProviderErrors \cup { "embedding", "noData" }

\* the error classes withRetry tries again after
RetryableErrors == { "RateLimitError", "InternalServerError", "APIConnectionError" }

\* a variant that treats every error as retryable
isRetryableAlways(error) == TRUE

\* isRateLimit || isServer
isRetryable(error) == error \in RetryableErrors

\* result.data[0]?.embedding ?? [] for a resolved call, [] for null
embeddingOf(result) == IF result = "embedding" THEN <<1, 0>> ELSE <<>>

\* a call in progress: fn is the function called from outside, log the
\* outcomes of the attempts made so far, result what withRetry returned,
\* ret what getEmbedding returned
RetryCall(fn, text, retries) ==
    [op |-> fn, pc |-> IF fn = "getEmbedding" THEN "entry" ELSE "attempt",
     text |-> text, retries |-> retries, attempt |-> 0, log |-> <<>>,
     result |-> "pending", raised |-> FALSE, ret |-> <<>>]

\* getEmbedding passes no retries option (the default applies); the tests
\* call withRetry with retries 0, 1 and 3
RetryInit ==
    /\ now = 0
    /\ embeddings = {}
    /\ analyses = {}
    /\ rate_limits = {}
    /\ installation_rate_limits = {}
    /\ comments = <<>>
    /\ labels = <<>>
    /\ metrics = <<>>
    /\ runs = IdleRuns
    /\ config = defaultConfig
    /\ callLog = [hourly |-> <<>>, daily |-> <<>>]
    /\ events = <<>>
    /\ \/ \E text \in EmbeddingInputs : lastOp = RetryCall("getEmbedding", text, MAX_RETRIES)
       \/ \E retries \in 0 .. MAX_RETRIES : lastOp = RetryCall("withRetry", <<"a">>, retries)

RetryUnchanged ==
    UNCHANGED <<now, embeddings, analyses, rate_limits, installation_rate_limits,
                comments, labels, metrics, runs, config, callLog, events>>

\* getEmbedding up to the call of withRetry
GetEmbeddingEntry ==
    /\ lastOp.pc = "entry"
    /\ lastOp' = IF trim(lastOp.text) = <<>>
                 THEN [lastOp EXCEPT !.pc = "returned", !.ret = <<>>]
                 ELSE [lastOp EXCEPT !.pc = "attempt"]
    /\ RetryUnchanged

\* one iteration of withRetry's loop up to its return or its sleep, and for
\* getEmbedding the statements after withRetry returns
RetryAttempt(reply) ==
    /\ lastOp.pc = "attempt"
    /\ lastOp.attempt <= lastOp.retries
    /\ LET logged == [lastOp EXCEPT !.log = Append(@, reply)]
       IN  lastOp' =
             IF reply \notin ProviderErrors
             THEN [logged EXCEPT !.pc = "returned", !.result = reply,
                                 !.ret = IF lastOp.op = "getEmbedding"
                                         THEN embeddingOf(reply) ELSE <<>>]
             ELSE IF ~isRetryable(reply) \/ lastOp.attempt = lastOp.retries
                  THEN [logged EXCEPT !.pc = "returned", !.result = "null", !.ret = <<>>]
                  ELSE [logged EXCEPT !.pc = "sleep"]
    /\ RetryUnchanged

\* await sleep(delay + jitter) resolves; attempt++
RetrySleep ==
    /\ lastOp.pc = "sleep"
    /\ lastOp' = [lastOp EXCEPT !.pc = "attempt", !.attempt = @ + 1]
    /\ RetryUnchanged

RetryNext ==
    \/ GetEmbeddingEntry
    \/ \E reply \in ProviderReplies : RetryAttempt(reply)
    \/ RetrySleep

\* the timer of sleep fires and the provider call settles
RetrySpec == RetryInit /\ [][RetryNext]_vars /\ WF_vars(RetryNext)

\* the attempts that ended in an error
FailedAttempts(log) == { i \in DOMAIN log : log[i] \in ProviderErrors }

\* the call ended because of a provider failure
EndedOnFailure(call) ==
    /\ call.pc = "returned"
    /\ Len(call.log) > 0
    /\ call.log[Len(call.log)] \in ProviderErrors

RetryReturned ==
    LET call == lastOp
        n == Len(call.log)
    IN  /\ ~call.raised
        /\ EndedOnFailure(call)
             => /\ call.result = "null"
                /\ call.ret = <<>>
                /\ n <= call.retries + 1
                /\ call.log[n] \in RetryableErrors => n = call.retries + 1
                /\ \A i \in FailedAttempts(call.log) :
                      call.log[i] \notin RetryableErrors => i = n
                /\ call.log[1] \notin RetryableErrors => n = 1
        /\ (call.op = "getEmbedding" /\ trim(call.text) = <<>>)
             => call.log = <<>> /\ call.ret = <<>>

(***************************************************************************)
(* C29: getEmbedding raises no provider error. A call that ends on a       *)
(* provider failure returns the empty vector (withRetry: null), after      *)
(* retries + 1 attempts when every error was retryable and with no attempt *)
(* after a non-retryable error (one attempt when the first error is one);  *)
(* blank input makes no attempt; and every call returns.                   *)
(***************************************************************************)
C29_GetEmbeddingDegrades ==
    /\ [](Len(lastOp.log) <= lastOp.retries + 1)
    /\ [](lastOp.pc = "returned" => RetryReturned)
    /\ <>(lastOp.pc = "returned")

C29_Witness ==
    /\ lastOp.op = "getEmbedding"
    /\ lastOp.pc = "returned"
    /\ lastOp.log = <<"RateLimitError", "InternalServerError", "APIConnectionError",
                      "RateLimitError">>
    /\ lastOp.ret = <<>>

(***************************************************************************)
(* C30: only close and reopen events change whether an item is offered as  *)
(* a duplicate candidate: a deactivated embedding (the item's last         *)
(* open-state event is "closed") becomes Active only at the step of a      *)
(* reopened event for that item, and an Active embedding stops being       *)
(* Active only at a closed event for that item.                            *)
(***************************************************************************)
C30_OnlyCloseAndReopenToggle ==
    [][\A it \in PipeItems :
         LET k == Key(PipeRepo, it.type, it.number)
         IN  /\ (KeyState(embeddings, k) = "Inactive" /\ KeyState(embeddings', k) = "Active")
                => \E r \in RunIds :
                     /\ runs[r].pc = "idle" /\ runs'[r].event = "reopened"
                     /\ runs'[r].type = it.type /\ runs'[r].number = it.number
             /\ (KeyState(embeddings, k) = "Active" /\ KeyState(embeddings', k) # "Active")
                => lastOp'.op = "closed" /\ lastOp'.key = k]_vars

(***************************************************************************)
(* Slash commands: handleCommand                                           *)
(***************************************************************************)
\* parseCommand's results that are exercised (config posts one comment, as
\* help does)
CommandKinds == { "help", "ignore", "review", "compare" }

\* what getCollaboratorPermissionLevel answers for the commenter, or that
\* the lookup throws
Permissions == { "write", "read", "lookup_failed" }

\* a variant that lets every commenter through
hasWriteAccessAlways(permission) == TRUE

\* data.permission === "admin" || data.permission === "write"; false in the catch
hasWriteAccess(permission) == permission \in { "admin", "write" }

\* Object.values(config.labels)
prguardLabels == { "duplicate", "off_scope", "on_track", "needs_review", "recommended" }

\* the comments a command posts; none carries summaryMarker()
commandComment(kind) == [kind |-> kind, marker |-> FALSE]

\* DELETE FROM analyses WHERE repo = ? AND type = ? AND number = ? (no
\* handler writes the reviews table, whose DELETE finds no row)
deleteAnalysisAndReview(tbl, repo, type, number) ==
    { row \in tbl : ~SameKey(row, repo, type, number) }

\* INSERT INTO events
logEvent(tbl, number, command) ==
    Append(tbl, [repo |-> PipeRepo, eventType |-> "issue_comment.created", number |-> number,
                 action |-> "command", command |-> command])

\* history: the command handled last, and the commenter's permission
CommandOp(kind, type, number, permission) ==
    [op |-> "command", kind |-> kind, key |-> Key(PipeRepo, type, number),
     permission |-> permission]

\* commands are handled between pipeline events, a bounded number of them
CommandArrives == Quiescent /\ metrics["commands_processed_total"] < MaxCommands

\* handleCommand for a commenter without write access: the denial comment
CommandDenied(type, number, kind, permission) ==
    /\ CommandArrives
    /\ ~hasWriteAccess(permission)
    /\ metrics' = inc(metrics, "commands_processed_total", 1)
    /\ comments' = [comments EXCEPT ![number] = Append(@, commandComment("denied"))]
    /\ lastOp' = CommandOp(kind, type, number, permission)
    /\ UNCHANGED <<now, embeddings, analyses, rate_limits, installation_rate_limits,
                   labels, runs, config, callLog, events>>

\* handleHelp: one comment
CommandInfo(type, number, kind, permission) ==
    /\ CommandArrives
    /\ hasWriteAccess(permission)
    /\ kind = "help"
    /\ metrics' = inc(metrics, "commands_processed_total", 1)
    /\ events' = logEvent(events, number, kind)
    /\ comments' = [comments EXCEPT ![number] = Append(@, commandComment(kind))]
    /\ lastOp' = CommandOp(kind, type, number, permission)
    /\ UNCHANGED <<now, embeddings, analyses, rate_limits, installation_rate_limits,
                   labels, runs, config, callLog>>

\* handleCompare: the body depends on which embeddings exist
compareBody(tbl, type, number, targetNumber) ==
    IF getEmbeddingRecord(tbl, PipeRepo, type, number) = NullRecord
    THEN commandComment("compare_no_current")
    ELSE IF /\ getEmbeddingRecord(tbl, PipeRepo, "pr", targetNumber) = NullRecord
            /\ getEmbeddingRecord(tbl, PipeRepo, "issue", targetNumber) = NullRecord
         THEN commandComment("compare_no_target")
         ELSE commandComment("comparison")

CommandCompare(type, number, targetNumber, permission) ==
    /\ CommandArrives
    /\ hasWriteAccess(permission)
    /\ metrics' = inc(metrics, "commands_processed_total", 1)
    /\ events' = logEvent(events, number, "compare")
    /\ comments' = [comments EXCEPT ![number] =
                       Append(@, compareBody(embeddings, type, number, targetNumber))]
    /\ lastOp' = CommandOp("compare", type, number, permission)
    /\ UNCHANGED <<now, embeddings, analyses, rate_limits, installation_rate_limits,
                   labels, runs, config, callLog>>

\* handleIgnore: deactivateEmbedding, deleteAnalysisAndReview, removeLabel
\* for each PRGuard label, and the confirmation comment
CommandIgnore(type, number, permission) ==
    /\ CommandArrives
    /\ hasWriteAccess(permission)
    /\ metrics' = inc(metrics, "commands_processed_total", 1)
    /\ events' = logEvent(events, number, "ignore")
    /\ embeddings' = deactivateEmbedding(embeddings, PipeRepo, type, number)
    /\ analyses' = deleteAnalysisAndReview(analyses, PipeRepo, type, number)
    /\ labels' = [labels EXCEPT ![number] = @ \ prguardLabels]
    /\ comments' = [comments EXCEPT ![number] = Append(@, commandComment("ignored"))]
    /\ lastOp' = [op |-> "command", kind |-> "ignore", key |-> Key(PipeRepo, type, number),
                  permission |-> permission, reopens |-> metrics["reopens_total"],
                  analysed |-> RowsOf(analyses, Key(PipeRepo, type, number)) # {}]
    /\ UNCHANGED <<now, rate_limits, installation_rate_limits, runs, config, callLog>>

\* handleReview on an issue: handleIssue is entered with the comment's payload
CommandReviewIssue(r, number, author, installationId, permission) ==
    /\ CommandArrives
    /\ NextSlot(r)
    /\ runs[r].pc = "idle"
    /\ hasWriteAccess(permission)
    /\ metrics' = inc(metrics, "commands_processed_total", 1)
    /\ events' = logEvent(events, number, "review")
    /\ Goto(r, [EventFrame("review", "issue", number, author, installationId, 0)
                   EXCEPT !.pc = "gates"])
    /\ lastOp' = CommandOp("review", "issue", number, permission)
    /\ UNCHANGED <<now, embeddings, analyses, rate_limits, installation_rate_limits,
                   comments, labels, config, callLog>>

\* handleReview on a pull request: handlePR is entered with the comment's
\* payload, which has no pull_request member, so payload.pull_request.number
\* throws and the event handler's catch counts the error
CommandReviewPR(number, permission) ==
    /\ CommandArrives
    /\ hasWriteAccess(permission)
    /\ metrics' = inc(inc(metrics, "commands_processed_total", 1), "errors_total", 1)
    /\ events' = logEvent(events, number, "review")
    /\ lastOp' = CommandOp("review", "pr", number, permission)
    /\ UNCHANGED <<now, embeddings, analyses, rate_limits, installation_rate_limits,
                   comments, labels, runs, config, callLog>>

\* the two pipeline events between which commands are handled
CommandRuns == {1, 2}

CommandInit ==
    /\ now = 0
    /\ embeddings = {}
    /\ analyses = {}
    /\ rate_limits = {}
    /\ installation_rate_limits = {}
    /\ comments = [n \in PipeNumbers |-> <<>>]
    /\ labels = [n \in PipeNumbers |-> {}]
    /\ metrics = [k \in MetricNames |-> 0]
    /\ runs = IdleRuns
    /\ config = LifeConfig
    /\ callLog = [hourly |-> <<>>, daily |-> <<>>]
    /\ events = <<>>
    /\ lastOp = [op |-> "none"]

CommandNext ==
    \/ \E r \in CommandRuns, it \in PipeItems, author \in LifeAuthors :
         \E score \in IF it.type = "pr" THEN LifeScores ELSE {0} :
           NextSlot(r) /\ Start(r, it.type, it.number, author, 101, score)
    \/ \E r \in CommandRuns, it \in PipeItems, author \in LifeAuthors :
         \E score \in IF it.type = "pr" THEN LifeScores ELSE {0} :
           NextSlot(r) /\ Reopened(r, it.type, it.number, author, 101, score)
    \/ \E it \in PipeItems : Quiescent /\ HandleClosed(it.type, it.number)
    \/ \E r \in CommandRuns : ReopenedAnalysis(r)
    \/ \E r \in CommandRuns, res \in LifeProviderOutcomes : Embed(r, res)
    \/ \E r \in CommandRuns : Analyze(r)
    \/ \E r \in CommandRuns : Labels(r)
    \/ \E r \in CommandRuns : ListComments(r)
    \/ \E r \in CommandRuns : WriteComment(r)
    \/ \E r \in CommandRuns : Finish(r)
    \/ \E it \in PipeItems, kind \in CommandKinds, permission \in Permissions :
         CommandDenied(it.type, it.number, kind, permission)
    \/ \E it \in PipeItems, kind \in CommandKinds, permission \in Permissions :
         CommandInfo(it.type, it.number, kind, permission)
    \/ \E it \in PipeItems, targetNumber \in PipeNumbers, permission \in Permissions :
         CommandCompare(it.type, it.number, targetNumber, permission)
    \/ \E it \in PipeItems, permission \in Permissions :
         CommandIgnore(it.type, it.number, permission)
    \/ \E r \in CommandRuns, it \in PipeItems, author \in LifeAuthors, permission \in Permissions :
         it.type = "issue" /\ CommandReviewIssue(r, it.number, author, 101, permission)
    \/ \E it \in PipeItems, permission \in Permissions :
         it.type = "pr" /\ CommandReviewPR(it.number, permission)

CommandSpec == CommandInit /\ [][CommandNext]_vars

\* the last command or close event handled was an authorized ignore of key k, and
\* no item has been reopened since
Ignored(k) ==
    /\ lastOp.op = "command"
    /\ lastOp.kind = "ignore"
    /\ hasWriteAccess(lastOp.permission)
    /\ lastOp.key = k
    /\ metrics["reopens_total"] = lastOp.reopens

(***************************************************************************)
(* C31: from an authorized /prguard ignore on an item until the item is    *)
(* reopened or /prguard review is issued, the item's embedding is not      *)
(* Active, it has no analysis row and it carries no PRGuard label,         *)
(* whatever opened or edited events are handled in between.                *)
(***************************************************************************)
C31_IgnoredItemSkipped ==
    \A it \in PipeItems :
       Ignored(Key(PipeRepo, it.type, it.number))
       => /\ KeyState(embeddings, Key(PipeRepo, it.type, it.number)) # "Active"
          /\ RowsOf(analyses, Key(PipeRepo, it.type, it.number)) = {}
          /\ labels[it.number] \cap prguardLabels = {}

\* the step at which a command is received
CommandStep ==
    metrics'["commands_processed_total"] = metrics["commands_processed_total"] + 1

(***************************************************************************)
(* C32: a /prguard command whose commenter has neither write nor admin     *)
(* permission, or whose permission lookup fails, leaves the embeddings,    *)
(* the analyses, the budget counters, the event log, the labels and the    *)
(* pipeline as they were and appends exactly one denial comment to the     *)
(* item.                                                                   *)
(***************************************************************************)
C32_DeniedCommandChangesNothing ==
    [][(CommandStep /\ lastOp'.permission \notin { "admin", "write" })
       => /\ UNCHANGED <<embeddings, analyses, rate_limits, installation_rate_limits,
                         events, labels, runs>>
          /\ comments' = [comments EXCEPT ![lastOp'.key.number] =
                             Append(@, commandComment("denied"))]]_vars

C32_Witness ==
    /\ lastOp.op = "command" /\ lastOp.kind = "ignore"
    /\ lastOp.permission = "lookup_failed"
    /\ KeyState(embeddings, lastOp.key) = "Active"
    /\ RowsOf(analyses, lastOp.key) # {}
    /\ "needs_review" \in labels[lastOp.key.number]
    /\ events = <<>>
    /\ comments[lastOp.key.number][Len(comments[lastOp.key.number])] = commandComment("denied")

(***************************************************************************)
(* The recommended label among duplicate pull requests                     *)
(***************************************************************************)
\* two pull requests of PipeRepo
RecommendItems == { [type |-> "pr", number |-> 1], [type |-> "pr", number |-> 2] }

\* the stores are empty, or pull request #1 was analysed before (vector
\* [1, 0], score 50, no duplicate at the time: needs_review and the summary)
RecommendInit ==
    /\ now = 0
    /\ \/ /\ embeddings = {}
          /\ analyses = {}
          /\ comments = [n \in PipeNumbers |-> <<>>]
          /\ labels = [n \in PipeNumbers |-> {}]
       \/ /\ embeddings = StoredEmbedding([type |-> "pr", number |-> 1], TRUE)
          /\ analyses = upsertAnalysis({}, PRAnalysis(1, 50))
          /\ comments = [n \in PipeNumbers |-> IF n = 1 THEN <<buildSummaryComment>> ELSE <<>>]
          /\ labels = [n \in PipeNumbers |-> IF n = 1 THEN prLabels(1, <<>>, 1) ELSE {}]
    /\ rate_limits = {}
    /\ installation_rate_limits = {}
    /\ metrics = [k \in MetricNames |-> 0]
    /\ runs = IdleRuns
    /\ config = defaultConfig
    /\ callLog = [hourly |-> <<>>, daily |-> <<>>]
    /\ events = <<>>
    /\ lastOp = [op |-> "none"]

RecommendNext ==
    \/ \E r \in RunIds, it \in RecommendItems, author \in LifeAuthors, score \in Scores :
         NextSlot(r) /\ Start(r, it.type, it.number, author, 101, score)
    \/ \E r \in RunIds : Return(r)
    \/ \E r \in RunIds, res \in ProviderOutcomes : Embed(r, res)
    \/ \E r \in RunIds : Analyze(r)
    \/ \E r \in RunIds : Labels(r)
    \/ \E r \in RunIds : ListComments(r)
    \/ \E r \in RunIds : WriteComment(r)
    \/ \E r \in RunIds : Finish(r)

RecommendSpec == RecommendInit /\ [][RecommendNext]_vars

\* both pull requests are Active, analysed, and similar at the threshold
DuplicateGroupAnalysed ==
    /\ Quiescent
    /\ \A it \in RecommendItems :
         /\ KeyState(embeddings, Key(PipeRepo, it.type, it.number)) = "Active"
         /\ RowsOf(analyses, Key(PipeRepo, it.type, it.number)) # {}
    /\ atLeastThreshold(getEmbeddingRecord(embeddings, PipeRepo, "pr", 1),
                        getEmbeddingRecord(embeddings, PipeRepo, "pr", 2),
                        config.duplicate_threshold)

(***************************************************************************)
(* C33: once both pull requests of a duplicate pair are Active and         *)
(* analysed, a pull request whose persisted quality score is strictly      *)
(* lower than the other's does not carry the recommended label.            *)
(***************************************************************************)
C33_RecommendedIsStrongest ==
    DuplicateGroupAnalysed
    => \A a \in RecommendItems, b \in RecommendItems :
         PersistedScore(a.number) < PersistedScore(b.number)
         => "recommended" \notin labels[a.number]

(***************************************************************************)
(* Dry run                                                                 *)
(***************************************************************************)
\* the lifecycle specification with dry_run off or on
DryInit ==
    /\ now = 0
    /\ embeddings = {}
    /\ analyses = {}
    /\ rate_limits = {}
    /\ installation_rate_limits = {}
    /\ comments = [n \in PipeNumbers |-> <<>>]
    /\ labels = [n \in PipeNumbers |-> {}]
    /\ metrics = [k \in MetricNames |-> 0]
    /\ runs = IdleRuns
    /\ \E d \in BOOLEAN : config = [LifeConfig EXCEPT !.dry_run = d]
    /\ callLog = [hourly |-> <<>>, daily |-> <<>>]
    /\ events = <<>>
    /\ lastOp = [op |-> "none"]

DrySpec == DryInit /\ [][LifeNext]_vars

\* the store writes of a step of run r, which do not depend on dry_run
StoreWritesOfStep(r) ==
    LET f == runs[r]
        g == runs'[r]
        k == Key(PipeRepo, g.type, g.number)
    IN  /\ (f.pc \in {"idle", "gates"} /\ g.pc = "embed")
           => HourlyCount(rate_limits', PipeRepo, hourOf(now))
                = HourlyCount(rate_limits, PipeRepo, hourOf(now)) + 1
        /\ (f.pc = "embed" /\ g.deduped /\ g.outcome # "error")
           => RowsOf(WithoutCreatedAt(embeddings'), k) = WrittenEmbedding(g)
        /\ (f.outcome # "complete" /\ g.outcome = "complete")
           => getAnalysis(analyses', k.repo, k.type, k.number) = WrittenAnalysis(g)
        /\ (f.pc = "finish" /\ g.pc = "done" /\ g.outcome = "complete" /\ g.type = "issue")
           => checkInstallationRateLimit(installation_rate_limits', g.installationId, 0,
                                         now).used
                = DailyCount(g.installationId, now) + 1

(***************************************************************************)
(* C34: with dry_run enabled no step of handlePR or handleIssue (full run, *)
(* degraded run, daily-limit notice) creates or adds a label or creates or *)
(* updates a comment; the hourly counter, the embedding row, the analysis  *)
(* row and the daily counter are written by the same steps as without      *)
(* dry_run.                                                                *)
(***************************************************************************)
C34_DryRunNoExternalWrite ==
    [][/\ config.dry_run
            => /\ comments' = comments
               /\ labels' = labels
               /\ \A r \in RunIds : ~runs'[r].labelsEnsured /\ runs'[r].labelsApplied = {}
       /\ \A r \in RunIds : StoreWritesOfStep(r)]_vars

C34_Witness ==
    /\ config.dry_run
    /\ \E r \in RunIds :
         /\ runs[r].pc = "done" /\ runs[r].outcome = "complete" /\ runs[r].type = "issue"
         /\ KeyState(embeddings, Key(PipeRepo, "issue", runs[r].number)) = "Active"
         /\ RowsOf(analyses, Key(PipeRepo, "issue", runs[r].number)) # {}
         /\ DailyCount(runs[r].installationId, now) = 1
         /\ comments[runs[r].number] = <<>>
         /\ labels[runs[r].number] = {}
    /\ \E q \in RunIds : runs[q].pc = "done" /\ runs[q].outcome = "daily_limited"

(***************************************************************************)
(* The daily-limit notice and the single comment                           *)
(***************************************************************************)
\* the tenant has used none of today's budget, or all of it on other items
NoticeInit ==
    /\ now = 0
    /\ embeddings = {}
    /\ analyses = {}
    /\ rate_limits = {}
    /\ installation_rate_limits \in { {}, incrementInstallationRateLimit({}, 101, 0) }
    /\ comments = [n \in PipeNumbers |-> <<>>]
    /\ labels = [n \in PipeNumbers |-> {}]
    /\ metrics = [k \in MetricNames |-> 0]
    /\ runs = IdleRuns
    /\ config = LifeConfig
    /\ callLog = [hourly |-> <<>>, daily |-> <<>>]
    /\ events = <<>>
    /\ lastOp = [op |-> "none"]

\* events are handled one after another; midnight may pass between them
NoticeNext ==
    \/ LifeNext
    \/ (Quiescent /\ now < MaxPipeNow /\ Tick)

NoticeSpec == NoticeInit /\ [][NoticeNext]_vars

\* the comments PRGuard's pipeline has posted on item n
PRGuardComments(n) ==
    { i \in DOMAIN comments[n] :
        comments[n][i].kind \in { "summary", "degraded", "daily_limit" } }

(***************************************************************************)
(* C35: after any sequence of limit-exceeded runs and normal runs an item  *)
(* carries at most one PRGuard comment (a run that follows a               *)
(* limit-exceeded run updates the comment that run left).                  *)
(***************************************************************************)
C35_NoticeKeepsSingleComment ==
    \A n \in PipeNumbers : Cardinality(PRGuardComments(n)) <= 1

(***************************************************************************)
(* Two handlers on one item at the same time                               *)
(***************************************************************************)
\* both concurrent handlers work on item n, or have finished working on it
BothRunsOn(n) == \A r \in ConcurrentRuns : runs[r].pc # "idle" /\ runs[r].number = n

(***************************************************************************)
(* C36: two pipeline runs for the same item that execute concurrently      *)
(* never leave two comments with the summary marker on the item.           *)
(***************************************************************************)
C36_ConcurrentRunsOneMarker ==
    \A n \in PipeNumbers : BothRunsOn(n) => Cardinality(MarkerComments(n)) < 2

(***************************************************************************)
(* The analysis row of an item over events and commands                    *)
(***************************************************************************)
\* getAnalysis(db, repo, type, number) returns a record, not null
Analyzed(tbl, it) == getAnalysis(tbl, PipeRepo, it.type, it.number) # NullRecord

(***************************************************************************)
(* C37: once upsertAnalysis has run for a key, getAnalysis for that key    *)
(* never returns null again, whatever events and commands follow.          *)
(***************************************************************************)
C37_AnalysisRowNeverRemoved ==
    [][\A it \in PipeItems : Analyzed(analyses, it) => Analyzed(analyses', it)]_vars

(***************************************************************************)
(* checkRateLimit called by several processes on one database: the         *)
(* INSERT ... ON CONFLICT statement and the SELECT statement are atomic    *)
(* each, other callers' statements may run between them                    *)
(***************************************************************************)
Callers == 1 .. MaxCalls

\* the frame of a checkRateLimit call: its arguments, its hour constant,
\* the counter its own statement wrote, and the row it read back
CallFrame(repo, hour, maxPerHour) ==
    [pc |-> "increment", repo |-> repo, hour |-> hour, maxPerHour |-> maxPerHour,
     wrote |-> 0, openai_calls |-> 0, ret |-> FALSE]

NotCalled == [pc |-> "idle"]

InterleaveInit ==
    /\ now = 0
    /\ embeddings = {}
    /\ analyses = {}
    /\ rate_limits = {}
    /\ installation_rate_limits = {}
    /\ comments = [n \in PipeNumbers |-> <<>>]
    /\ labels = [n \in PipeNumbers |-> {}]
    /\ metrics = [k \in MetricNames |-> 0]
    /\ runs = [c \in Callers |-> NotCalled]
    /\ config = defaultConfig
    /\ callLog = [hourly |-> <<>>, daily |-> <<>>]
    /\ events = <<>>
    /\ lastOp \in { [op |-> "checkRateLimitCalls", maxPerHour |-> b] : b \in 1 .. MaxBudget }

\* const hour = new Date().toISOString().slice(0, 13)
CallCheckRateLimit(c, repo) ==
    /\ runs[c].pc = "idle"
    /\ \A b \in Callers : b < c => runs[b].pc # "idle"
    /\ runs' = [runs EXCEPT ![c] = CallFrame(repo, hourOf(now), lastOp.maxPerHour)]
    /\ UNCHANGED <<now, embeddings, analyses, rate_limits, installation_rate_limits,
                   comments, labels, metrics, config, callLog, lastOp, events>>

\* the INSERT ... ON CONFLICT DO UPDATE statement
IncrementStatement(c) ==
    /\ runs[c].pc = "increment"
    /\ rate_limits' = rlIncrement(rate_limits, runs[c].repo, runs[c].hour)
    /\ runs' = [runs EXCEPT ![c].pc = "read",
                            ![c].wrote = HourlyCount(rate_limits, runs[c].repo, runs[c].hour) + 1]
    /\ UNCHANGED <<now, embeddings, analyses, installation_rate_limits,
                   comments, labels, metrics, config, callLog, lastOp, events>>

\* the SELECT statement and the return
ReadStatement(c) ==
    /\ runs[c].pc = "read"
    /\ LET row == rlRead(rate_limits, runs[c].repo, runs[c].hour)
       IN  runs' = [runs EXCEPT ![c].pc = "done",
                                ![c].openai_calls = row,
                                ![c].ret = underBudget(row, runs[c].maxPerHour)]
    /\ UNCHANGED <<now, embeddings, analyses, rate_limits, installation_rate_limits,
                   comments, labels, metrics, config, callLog, lastOp, events>>

InterleaveNext ==
    \/ Tick
    \/ \E c \in Callers : CallCheckRateLimit(c, PipeRepo)
    \/ \E c \in Callers : IncrementStatement(c)
    \/ \E c \in Callers : ReadStatement(c)

InterleaveSpec == InterleaveInit /\ [][InterleaveNext]_vars

\* the calls for one bucket that returned true
Admitted(repo, hour) ==
    { c \in Callers : /\ runs[c].pc = "done"
                      /\ runs[c].repo = repo /\ runs[c].hour = hour
                      /\ runs[c].ret }

(***************************************************************************)
(* C38: under any interleaving of the statements of concurrent             *)
(* checkRateLimit calls for one repository and hour bucket, at most        *)
(* maxPerHour of the calls are admitted in that bucket.                    *)
(***************************************************************************)
C38_AtMostBudgetAdmitted ==
    \A repo \in Repos, hour \in Hours :
        Cardinality(Admitted(repo, hour)) <= lastOp.maxPerHour

\* the budget of a bucket is used up by calls that read the counter after
\* another call's increment, and a further call of the bucket is refused
C38_Witness ==
    \E hour \in Hours :
       /\ Cardinality(Admitted(PipeRepo, hour)) = lastOp.maxPerHour
       /\ \E c \in Admitted(PipeRepo, hour) : runs[c].openai_calls > runs[c].wrote
       /\ \E c \in Callers : /\ runs[c].pc = "done" /\ runs[c].hour = hour
                              /\ ~runs[c].ret

(***************************************************************************)
(* Two similar items handled at the same time                              *)
(***************************************************************************)
\* the handler ran the full pipeline and returned
Completed(r) == runs[r].pc = "done" /\ runs[r].outcome = "complete"

\* the vectors the two handlers stored are at least duplicate_threshold similar
SimilarVectors(r, q) ==
    SimGE(cosineSimilarity(runs[r].embedding, runs[q].embedding),
          Hundredths(config.duplicate_threshold))

\* the persisted analysis of the item of handler r lists the item of handler q
ListsAsDuplicate(r, q) ==
    LET record == getAnalysis(analyses, PipeRepo, runs[r].type, runs[r].number)
    IN  /\ record # NullRecord
        /\ \E i \in DOMAIN record.duplicates :
              /\ record.duplicates[i].type = runs[q].type
              /\ record.duplicates[i].number = runs[q].number

\* two concurrent handlers, on two items with similar vectors, both completed
SimilarPairCompleted(r, q) ==
    /\ r # q
    /\ Completed(r) /\ Completed(q)
    /\ <<runs[r].type, runs[r].number>> # <<runs[q].type, runs[q].number>>
    /\ SimilarVectors(r, q)

(***************************************************************************)
(* C39: when two items whose vectors have similarity >= threshold are      *)
(* processed by concurrent pipeline runs that both complete, at least one  *)
(* of the two persisted analyses lists the other item as a duplicate.      *)
(***************************************************************************)
C39_OneOfTwoListsTheOther ==
    \A r \in ConcurrentRuns, q \in ConcurrentRuns :
        SimilarPairCompleted(r, q) => ListsAsDuplicate(r, q) \/ ListsAsDuplicate(q, r)

\* the run that listed the candidates first did not see the other item, the
\* other run lists it
C39_Witness ==
    \E r \in ConcurrentRuns, q \in ConcurrentRuns :
        /\ SimilarPairCompleted(r, q)
        /\ runs[r].type = "pr"
        /\ ~ListsAsDuplicate(r, q)
        /\ ListsAsDuplicate(q, r)

====
